---- MODULE Spec2Model ----
(***************************************************************************)
(* A model of the connection selector (src/selector.go), of the query      *)
(* builder (src/queries.go) and of the preloader (src/unnamed/part_004) of *)
(* makroud / sqlxx.                                                        *)
(*                                                                         *)
(* The specifications share the module's variables:                        *)
(*   Spec       callers running Using and Close concurrently on one        *)
(*              Selector, one action per lock-delimited step;              *)
(*   AliasSpec  a caller running RetryAliases and RetryMaster while the    *)
(*              others close the Selector;                                 *)
(*   RetrySpec  the function Retry applied to bounded inputs;              *)
(*   SaveSpec   Save, Delete and SoftDelete applied to one instance over   *)
(*              a driver that records what it is sent;                     *)
(*   TextSpec   Save called again and again on the entity of the example;  *)
(*   RoundTripSpec  Save and GetByParams over a table;                     *)
(*   PreloadSpec    preload of one to two paths on an Article or a slice   *)
(*              of Articles, one action per level;                         *)
(*   DriverSpec Save, Delete, SoftDelete, GetByParams and FindByParams     *)
(*              over a driver whose statements can fail;                   *)
(*   SchemaSpec GetSchema (src/schema.go) applied to entity types;         *)
(*   LiveSpec   Using and Close with callers that go on (fairness).        *)
(***************************************************************************)
EXTENDS Integers, Sequences, FiniteSets, TLC

VARIABLES
    \* ---- Selector (src/selector.go:11-15) and its callers
    configurations, \* Selector.configurations: the set of stored names
    connections,    \* Selector.connections: lower-cased alias -> connection
    mutex,          \* Selector.mutex: [readers, writer]
    pc,             \* position of each caller
    call,           \* the Using each caller is in: the alias as given and
                    \* lower-cased; history: prior, what an earlier Using of the
                    \* alias had returned when this one began, forgotten when
                    \* a Selector.Close runs
    last,           \* the latest return: who returned what from which call
    rframe,         \* the RetryAliases frame of each caller
    ctorLog,        \* history: every NewWithOptions invocation, in order
    closeLog,       \* history: every Driver.Close invocation
    closeCount,     \* history: number of Selector.Close bodies run
    returned,       \* history: alias -> the connection a Using returned since
                    \* the last Selector.Close, and the alias as it was given
    \* ---- Retry applied as a function
    rDrivers,       \* the drivers argument
    rHandler,       \* the handler: invocation index -> error it returns
    rResult,        \* the result of the call
    \* ---- Save, Delete and SoftDelete (src/queries.go)
    schema,         \* what getSchemaFromInterface returns for the instance
    instance,       \* the entity: the value of its primary key field
    issued,         \* the statements the latest call sent to the driver
    sent,           \* history: the statements the call before it sent
    entity,         \* the entity: the values of its fields a and b
    table,          \* the table t of the database: primary key -> row
    fetched,        \* what the latest GetByParams returned and scanned
    root,           \* the out argument of Preload (src/unnamed/part_004):
                    \* whether it is a slice, and its elements
    pre,            \* the Preload call: where it is, the paths it was given,
                    \* the levels it has still to run with their fields, the
                    \* queries it issued so far and the error it returned;
                    \* down, the table the driver fails every fetch on;
                    \* history: sent, the fetches the driver was sent
    introspected,   \* the GetSchema call (src/schema.go): the entity type it
                    \* was given and how it ended
    sret            \* the latest call: what it was, the primary key when it
                    \* began, the error it returned, the columns stmt.Get
                    \* scanned into the instance; history: afterInsert, the
                    \* call before it was a Save that inserted and succeeded;
                    \* prior, what the call before it was and the primary
                    \* key when that call began

selVars == <<configurations, connections, mutex, pc, call, last, rframe,
             ctorLog, closeLog, closeCount, returned>>
retryVars == <<rDrivers, rHandler, rResult>>
dbVars == <<entity, table, fetched>>
preVars == <<root, pre, introspected>>
queryVars == <<schema, instance, issued, sent, sret, dbVars, preVars>>
vars == <<selVars, retryVars, queryVars>>

----------------------------------------------------------------------------
(* Bounds *)

NumCallers == 2     \* concurrent callers of the selector
MaxCtor == 3        \* NewWithOptions invocations in one behaviour
MaxCloses == 1      \* Selector.Close calls in one behaviour
MaxDrivers == 3     \* length of the drivers list given to Retry
MaxPk == 2          \* largest primary key of an instance
MaxElems == 2       \* length of the slice given to Preload

Callers == 1..NumCallers

----------------------------------------------------------------------------
(* Values *)

\* error values
Nil == "nil"
ErrSelectorNotFoundConnection == "ErrSelectorNotFoundConnection"
ErrSelectorMissingRetryConnection == "ErrSelectorMissingRetryConnection"
ErrNewWithOptions == "ErrNewWithOptions"
HandlerErrors == {"errA", "errB"}

\* the nil Driver
NoConn == 0

\* Names used as configuration names and as aliases; strings.ToLower on them.
Names == {"master", "MASTER", "Slave"}

ToLower(s) ==
    CASE s \in {"master", "Master", "MASTER"} -> "master"
      [] s \in {"slave", "Slave", "SLAVE"} -> "slave"

LowerNames == {"master", "slave"}

Range(f) == {f[x] : x \in DOMAIN f}

EmptyMap == [x \in {} |-> NoConn]

----------------------------------------------------------------------------
(* Retry (src/selector.go:126-139) *)

\* A loop that keeps the first error instead of the last.
RECURSIVE RetryLoopKeepFirst(_, _, _, _, _)
RetryLoopKeepFirst(handler, drivers, i, err, calls) ==
    IF i > Len(drivers)
    THEN [err |-> err, calls |-> calls]
    ELSE LET e == handler[i]
             done == Append(calls, drivers[i])
         IN  IF e = Nil
             THEN [err |-> Nil, calls |-> done]
             ELSE RetryLoopKeepFirst(handler, drivers, i + 1,
                                     IF err = Nil THEN e ELSE err, done)

\* The handler is modelled by the error its i-th invocation returns; calls
\* is the list of drivers the handler was invoked on, in order.
RECURSIVE RetryLoop(_, _, _, _, _)
RetryLoop(handler, drivers, i, err, calls) ==
    IF i > Len(drivers)
    THEN [err |-> err, calls |-> calls]                         \* return err
    ELSE LET e == handler[i]                                    \* err = handler(driver)
             done == Append(calls, drivers[i])
         IN  IF e = Nil
             THEN [err |-> Nil, calls |-> done]                 \* return nil
             ELSE RetryLoop(handler, drivers, i + 1, e, done)

\* A Retry without the guard of lines 127-129.
RetryNoGuard(handler, drivers) == RetryLoop(handler, drivers, 1, Nil, <<>>)

Retry(handler, drivers) ==
    IF Len(drivers) = 0
    THEN [err |-> ErrSelectorMissingRetryConnection, calls |-> <<>>]
    ELSE RetryLoop(handler, drivers, 1, Nil, <<>>)

Handlers(n) == [1..n -> {Nil} \cup HandlerErrors]

----------------------------------------------------------------------------
(* Entities and their schemas (src/queries.go, src/unnamed/part_005) *)

ErrSchema == "getSchemaFromInterface error"
ErrNoPrimaryKey == "has no primary key, cannot be deleted"
ErrPrepareNamed == "PrepareNamed error"
ErrGet == "stmt.Get error"
ErrNamedExec == "NamedExec error"

\* The values of a primary key: 0 is the zero value of its type.
PkValues == 0..MaxPk

\* reflect.Indirect(v).Interface() == reflect.Zero(v.Type()).Interface(),
\* for a primary key of integer type.
isZeroValueNever(itf) == FALSE
isZeroValue(itf) == itf = 0

\* The fields of the entity and the column of each.
FieldNames == {"ID", "A", "B"}
ExampleFieldNames == FieldNames \cup {"C"}
ColumnName == [n \in ExampleFieldNames |-> CASE n = "ID" -> "id"
                                              [] n = "A" -> "a"
                                              [] n = "B" -> "b"
                                              [] n = "C" -> "c"]

\* The tag of a field as makeTags stores it: the value of the key
\* "ignored" and of the key "default", "" when the key is absent; a key
\* written alone is stored with the value "true" (ignored, ignored:true and
\* ignored:false are the ways to write the first).
TagValues == [ignored : {"", "true", "false"}, default : {"", "now()"}]

Field(name, tag) == [Name |-> name, ColumnName |-> ColumnName[name], Tags |-> tag]

\* The zero Field, which a map of fields yields for a name it does not hold.
NoField == [Name |-> "", ColumnName |-> "", Tags |-> [ignored |-> "", default |-> ""]]

\* Every schema of a table t whose primary key field is ID.
Schemas ==
    { [err |-> Nil, TableName |-> "t",
       PrimaryField |-> Field("ID", tags["ID"]),
       Fields |-> [n \in FieldNames |-> Field(n, tags[n])]] :
      tags \in [FieldNames -> TagValues] }

\* The schema of an entity with the columns a and b, an ignored column c and
\* an ignored primary key id, as the keys of the test models are.
ExampleSchema ==
    LET tag == [n \in ExampleFieldNames |->
                  IF n \in {"ID", "C"} THEN [ignored |-> "true", default |-> ""]
                  ELSE [ignored |-> "", default |-> ""]]
    IN  [err |-> Nil, TableName |-> "t",
         PrimaryField |-> Field("ID", tag["ID"]),
         Fields |-> [n \in ExampleFieldNames |-> Field(n, tag[n])]]

\* What getSchemaFromInterface returns with an error.
NoSchema == [err |-> ErrSchema, TableName |-> "", PrimaryField |-> NoField,
             Fields |-> [n \in {} |-> NoField]]

\* The columns of the table t besides its primary key, and their values.
Columns == {"a", "b"}
GivenValue == 1
DbValues == {2}
NoRow == [c \in Columns |-> 0]
NoTable == [k \in {} |-> NoRow]
NoOut == [err |-> Nil, id |-> 0, row |-> NoRow]

\* No preload is called.
NoRoot == [isSlice |-> FALSE, elems |-> <<>>]
NoPreload == [state |-> "idle", paths |-> <<>>, pending |-> <<>>,
              queries |-> <<>>, err |-> Nil, down |-> "", sent |-> <<>>]

\* No GetSchema is called.
NoIntrospection ==
    [state |-> "idle", model |-> <<>>, returned |-> FALSE, panic |-> FALSE,
     err |-> Nil, Columns |-> {}, Associations |-> {}]

PreloadIdle ==
    /\ root = NoRoot /\ pre = NoPreload
    /\ introspected = NoIntrospection

\* No database is in use.
NoDb ==
    /\ entity = NoRow
    /\ table = NoTable
    /\ fetched = NoOut

NoSaveRet == [op |-> "none", pk |-> 0, err |-> Nil, scanned |-> {},
              afterInsert |-> FALSE, prior |-> [op |-> "none", pk |-> 0]]

\* No entity is being saved.
QueryIdle ==
    /\ schema = NoSchema
    /\ instance = [pk |-> 0]
    /\ issued = <<>>
    /\ sent = <<>>
    /\ sret = NoSaveRet
    /\ NoDb

----------------------------------------------------------------------------
(* Selector: construction (src/selector.go:17-39) *)

ConfigNames == {"Master", "slave", "SLAVE"}

\* The driver handed to NewSelectorWithDriver; constructed ones follow it.
GivenDriver == 1
AllConns == 1..(MaxCtor + GivenDriver)
FreshConn == Len(ctorLog) + 1 + GivenDriver

NoReturned == [conn |-> NoConn, arg |-> ""]
NoCall == [arg |-> "", alias |-> "", prior |-> NoReturned]
NoRet == [by |-> 0, kind |-> "none", conn |-> NoConn, err |-> Nil,
          errs |-> {}, calls |-> <<>>, arg |-> "", alias |-> "",
          prior |-> NoReturned, built |-> FALSE,
          pool |-> EmptyMap, via |-> "",
          aliases |-> <<>>, resolved |-> <<>>, drivers |-> <<>>]
NoFrame == [active |-> FALSE, via |-> "", aliases |-> <<>>, idx |-> 1,
            drivers |-> <<>>, resolved |-> <<>>]

SelectorFresh ==
    /\ mutex = [readers |-> 0, writer |-> 0]
    /\ pc = [p \in Callers |-> "idle"]
    /\ call = [p \in Callers |-> NoCall]
    /\ last = NoRet
    /\ rframe = [p \in Callers |-> NoFrame]
    /\ ctorLog = <<>>
    /\ closeLog = [c \in AllConns |-> [calls |-> 0, fails |-> 0]]
    /\ closeCount = 0
    /\ returned = [a \in LowerNames |-> NoReturned]

NewSelector(configs) ==
    /\ configurations = configs
    /\ connections = EmptyMap

NewSelectorWithDriver(driver) ==
    /\ configurations = {}
    /\ connections = [a \in {"master"} |-> driver]

RetryIdle ==
    /\ rDrivers = <<>>
    /\ rHandler = <<>>
    /\ rResult = [err |-> Nil, calls |-> <<>>, done |-> FALSE]

Init ==
    /\ SelectorFresh
    /\ \/ \E configs \in SUBSET ConfigNames : NewSelector(configs)
       \/ NewSelectorWithDriver(GivenDriver)
    /\ RetryIdle
    /\ PreloadIdle
    /\ QueryIdle

----------------------------------------------------------------------------
(* Selector.Using (src/selector.go:42-76) *)

UsingPcs == {"u_read", "u_lock", "u_locked"}

\* Every Using invokes NewWithOptions at most once: a call starts only while
\* the bound on invocations leaves room for it.
CanStartUsing ==
    Len(ctorLog) + Cardinality({q \in Callers : pc[q] \in UsingPcs}) < MaxCtor

\* conn, err: what Using returns. History kept with it: arg and alias, the
\* alias as given and lower-cased; prior, what an earlier Using of the alias
\* had returned when this call began (NoReturned if none, or if a
\* Selector.Close ran since); built, whether this call invoked NewWithOptions;
\* pool, the pool as the returning step found it.
UsingRet(p, conn, err, built) ==
    [NoRet EXCEPT !.by = p, !.kind = "using", !.conn = conn, !.err = err,
                  !.arg = call[p].arg, !.alias = call[p].alias,
                  !.prior = call[p].prior, !.built = built,
                  !.pool = connections]

PrependDriver(drivers, connection) == <<connection>> \o drivers

\* drivers = append(drivers, connection)
AppendDriver(drivers, connection) == Append(drivers, connection)

\* src/selector.go:83-88: what the loop of RetryAliases does with the result
\* of Using. resolved keeps every result, in call order.
Collect(frame, conn, err) ==
    [frame EXCEPT !.idx = @ + 1,
                  !.resolved = Append(@, [alias |-> frame.aliases[frame.idx],
                                          conn |-> conn, err |-> err]),
                  !.drivers = IF err # Nil THEN @ ELSE AppendDriver(@, conn)]

\* return connection, err : to the caller, or to the loop of RetryAliases
UsingReturn(p, conn, err, built) ==
    /\ last' = UsingRet(p, conn, err, built)
    /\ call' = [call EXCEPT ![p] = NoCall]
    /\ IF rframe[p].active
       THEN /\ rframe' = [rframe EXCEPT ![p] = Collect(@, conn, err)]
            /\ pc' = [pc EXCEPT ![p] = "ra_next"]
       ELSE /\ rframe' = rframe
            /\ pc' = [pc EXCEPT ![p] = "idle"]
    /\ returned' = IF err = Nil
                   THEN [returned EXCEPT ![call[p].alias] =
                                            [conn |-> conn, arg |-> call[p].arg]]
                   ELSE returned

\* alias = strings.ToLower(alias); selector.mutex.RLock()
StartUsing(p, alias) ==
    /\ CanStartUsing
    /\ mutex.writer = 0
    /\ mutex' = [mutex EXCEPT !.readers = @ + 1]
    /\ call' = [call EXCEPT ![p] = [arg |-> alias, alias |-> ToLower(alias),
                                    prior |-> returned[ToLower(alias)]]]
    /\ pc' = [pc EXCEPT ![p] = "u_read"]

UsingRLock(p) ==
    /\ pc[p] = "idle"
    /\ \E alias \in Names : StartUsing(p, alias)
    /\ UNCHANGED <<configurations, connections, last, rframe, ctorLog,
                   closeLog, closeCount, returned, retryVars, queryVars>>

\* connection, found := selector.connections[alias]; RUnlock; if found return
UsingRead(p) ==
    /\ pc[p] = "u_read"
    /\ mutex' = [mutex EXCEPT !.readers = @ - 1]
    /\ IF call[p].alias \in DOMAIN connections
       THEN UsingReturn(p, connections[call[p].alias], Nil, FALSE)
       ELSE /\ pc' = [pc EXCEPT ![p] = "u_lock"]
            /\ UNCHANGED <<call, last, rframe, returned>>
    /\ UNCHANGED <<configurations, connections, ctorLog,
                   closeLog, closeCount, retryVars, queryVars>>

\* selector.mutex.Lock()
UsingLock(p) ==
    /\ pc[p] = "u_lock"
    /\ mutex = [readers |-> 0, writer |-> 0]
    /\ mutex' = [mutex EXCEPT !.writer = p]
    /\ pc' = [pc EXCEPT ![p] = "u_locked"]
    /\ UNCHANGED <<configurations, connections, call, last, rframe, ctorLog,
                   closeLog, closeCount, returned, retryVars, queryVars>>

RecheckNever(pool, alias) == FALSE

\* the second look at the pool, under the exclusive lock (lines 56-59)
Recheck(pool, alias) == alias \in DOMAIN pool

ConfigMatchesExact(alias, name) == alias = name

\* alias == strings.ToLower(name) (line 62)
ConfigMatches(alias, name) == alias = ToLower(name)

StoreNothing(pool, alias, conn) == pool

\* selector.connections[alias] = connection (line 69)
Store(pool, alias, conn) ==
    [a \in DOMAIN pool \cup {alias} |-> IF a = alias THEN conn ELSE pool[a]]

\* A Using that unlocks before each return by hand and forgets it on the
\* return of the constructor's error.
UsingLockedHolds(p) ==
    /\ pc[p] = "u_locked"
    /\ LET alias == call[p].alias
           matches == {n \in configurations : ConfigMatches(alias, n)}
       IN  IF Recheck(connections, alias)
           THEN /\ UsingReturn(p, connections[alias], Nil, FALSE)
                /\ mutex' = [mutex EXCEPT !.writer = 0]
                /\ UNCHANGED <<connections, ctorLog>>
           ELSE IF matches = {}
           THEN /\ UsingReturn(p, NoConn, ErrSelectorNotFoundConnection, FALSE)
                /\ mutex' = [mutex EXCEPT !.writer = 0]
                /\ UNCHANGED <<connections, ctorLog>>
           ELSE \E name \in matches, ok \in BOOLEAN :
                   /\ ctorLog' = Append(ctorLog,
                          [alias |-> alias,
                           conn |-> IF ok THEN FreshConn ELSE NoConn])
                   /\ IF ok
                      THEN /\ connections' = Store(connections, alias, FreshConn)
                           /\ mutex' = [mutex EXCEPT !.writer = 0]
                           /\ UsingReturn(p, FreshConn, Nil, TRUE)
                      ELSE /\ UNCHANGED <<connections, mutex>>
                           /\ UsingReturn(p, NoConn, ErrNewWithOptions, TRUE)
    /\ UNCHANGED <<configurations, closeLog, closeCount, retryVars, queryVars>>

\* lines 56-75 and the deferred Unlock
UsingLocked(p) ==
    /\ pc[p] = "u_locked"
    /\ mutex' = [mutex EXCEPT !.writer = 0]
    /\ LET alias == call[p].alias
           matches == {n \in configurations : ConfigMatches(alias, n)}
       IN  IF Recheck(connections, alias)
           THEN /\ UsingReturn(p, connections[alias], Nil, FALSE)
                /\ UNCHANGED <<connections, ctorLog>>
           ELSE IF matches = {}
           THEN /\ UsingReturn(p, NoConn, ErrSelectorNotFoundConnection, FALSE)
                /\ UNCHANGED <<connections, ctorLog>>
           ELSE \E name \in matches, ok \in BOOLEAN :
                   \* connection, err := NewWithOptions(configuration)
                   /\ ctorLog' = Append(ctorLog,
                          [alias |-> alias,
                           conn |-> IF ok THEN FreshConn ELSE NoConn])
                   /\ IF ok
                      THEN /\ connections' = Store(connections, alias, FreshConn)
                           /\ UsingReturn(p, FreshConn, Nil, TRUE)
                      ELSE /\ UNCHANGED connections
                           /\ UsingReturn(p, NoConn, ErrNewWithOptions, TRUE)
    /\ UNCHANGED <<configurations, closeLog, closeCount, retryVars, queryVars>>

----------------------------------------------------------------------------
(* Selector.Close (src/selector.go:100-116) *)

\* selector.mutex.Lock()
CloseLock(p) ==
    /\ pc[p] = "idle"
    /\ closeCount + Cardinality({q \in Callers : pc[q] = "c_locked"}) < MaxCloses
    /\ mutex = [readers |-> 0, writer |-> 0]
    /\ mutex' = [mutex EXCEPT !.writer = p]
    /\ pc' = [pc EXCEPT ![p] = "c_locked"]
    /\ UNCHANGED <<configurations, connections, call, last, rframe, ctorLog,
                   closeLog, closeCount, returned, retryVars, queryVars>>

\* A Close that returns at the first error it meets.
CloseAllShortCircuit(pool, failing) ==
    IF DOMAIN pool \cap failing = {}
    THEN [visited |-> DOMAIN pool, errs |-> {}, pool |-> EmptyMap]
    ELSE [visited |-> {CHOOSE a \in DOMAIN pool \cap failing : TRUE},
          errs |-> {CHOOSE a \in DOMAIN pool \cap failing : TRUE},
          pool |-> pool]

\* A Close that calls Close on every connection and leaves the pool as it is.
CloseAllKeepPool(pool, failing) ==
    [visited |-> DOMAIN pool,
     errs |-> {a \in DOMAIN pool : a \in failing},
     pool |-> pool]

\* A Close that empties the pool and calls Close on no connection.
CloseAllResetOnly(pool, failing) ==
    [visited |-> {}, errs |-> {}, pool |-> EmptyMap]

\* The loop of lines 106-111 and the reset of line 113. failing is the set of
\* aliases whose connection.Close() returns an error. visited: the aliases
\* the loop calls Close on; errs: one wrapped error per failure, named by
\* its alias (a Go map is ranged over in no fixed order).
CloseAll(pool, failing) ==
    [visited |-> DOMAIN pool,
     errs |-> {a \in DOMAIN pool : a \in failing},
     pool |-> EmptyMap]

\* What Close returns; history kept with it: the pool as Close found it.
CloseRet(p, errs) ==
    [NoRet EXCEPT !.by = p, !.kind = "close", !.errs = errs,
                  !.pool = connections]

\* lines 104-115 and the deferred Unlock
CloseLocked(p) ==
    /\ pc[p] = "c_locked"
    /\ mutex' = [mutex EXCEPT !.writer = 0]
    /\ \E failing \in SUBSET DOMAIN connections :
          LET r == CloseAll(connections, failing)
          IN  /\ closeLog' = [c \in AllConns |->
                    [calls |-> closeLog[c].calls
                        + Cardinality({a \in r.visited : connections[a] = c}),
                     fails |-> closeLog[c].fails
                        + Cardinality({a \in r.visited \cap failing :
                                         connections[a] = c})]]
              /\ connections' = r.pool
              /\ last' = CloseRet(p, r.errs)
    /\ closeCount' = closeCount + 1
    /\ returned' = [a \in LowerNames |-> NoReturned]
    /\ call' = [q \in Callers |-> [call[q] EXCEPT !.prior = NoReturned]]
    /\ pc' = [pc EXCEPT ![p] = "idle"]
    /\ UNCHANGED <<configurations, rframe, ctorLog, retryVars, queryVars>>

----------------------------------------------------------------------------
(* Selector.RetryAliases, RetryMaster, Ping (src/selector.go:79-97, 119-123) *)

\* RetryMaster: selector.RetryAliases(handler, "slave", "master")
RetryMasterAliases == <<"slave", "master">>

\* The alias lists RetryAliases is called with.
RetryAliasLists == {RetryMasterAliases, <<"MASTER", "Slave", "master">>, <<>>}

\* What RetryAliases returns; history kept with it: the method called, the
\* aliases it was given, the result of each Using it called and the drivers
\* it gave to Retry.
RetryRet(p, frame, r) ==
    [NoRet EXCEPT !.by = p, !.kind = "retry", !.err = r.err, !.calls = r.calls,
                  !.via = frame.via, !.aliases = frame.aliases, !.resolved = frame.resolved,
                  !.drivers = frame.drivers]

\* drivers := []Driver{} (line 80)
StartRetryAliases(p, via, aliases) ==
    /\ pc[p] = "idle"
    /\ rframe' = [rframe EXCEPT ![p] =
                     [active |-> TRUE, via |-> via, aliases |-> aliases, idx |-> 1,
                      drivers |-> <<>>, resolved |-> <<>>]]
    /\ pc' = [pc EXCEPT ![p] = "ra_next"]
    /\ UNCHANGED <<configurations, connections, mutex, call, last, ctorLog,
                   closeLog, closeCount, returned, retryVars, queryVars>>

RetryAliasesCall(p) ==
    \E aliases \in RetryAliasLists \ {RetryMasterAliases} :
        StartRetryAliases(p, "RetryAliases", aliases)

\* RetryMaster, and Ping, which is RetryMaster with driver.Ping as handler
RetryMaster(p) == StartRetryAliases(p, "RetryMaster", RetryMasterAliases)

\* connection, err := selector.Using(alias) (line 83): the call
RetryAliasesUsing(p) ==
    /\ pc[p] = "ra_next"
    /\ rframe[p].idx <= Len(rframe[p].aliases)
    /\ StartUsing(p, rframe[p].aliases[rframe[p].idx])
    /\ UNCHANGED <<configurations, connections, last, rframe, ctorLog,
                   closeLog, closeCount, returned, retryVars, queryVars>>

\* return Retry(handler, drivers...) (line 91)
RetryAliasesRetry(p) ==
    /\ pc[p] = "ra_next"
    /\ rframe[p].idx > Len(rframe[p].aliases)
    /\ \E handler \in Handlers(Len(rframe[p].drivers)) :
          last' = RetryRet(p, rframe[p], Retry(handler, rframe[p].drivers))
    /\ rframe' = [rframe EXCEPT ![p] = NoFrame]
    /\ pc' = [pc EXCEPT ![p] = "idle"]
    /\ UNCHANGED <<configurations, connections, mutex, call, ctorLog,
                   closeLog, closeCount, returned, retryVars, queryVars>>

----------------------------------------------------------------------------
(* The selector with its concurrent callers *)

Next ==
    \E p \in Callers :
        \/ UsingRLock(p)
        \/ UsingRead(p)
        \/ UsingLock(p)
        \/ UsingLocked(p)
        \/ CloseLock(p)
        \/ CloseLocked(p)

Spec == Init /\ [][Next]_vars

----------------------------------------------------------------------------
(* The selector with callers that go on.  sync.RWMutex lets no caller of Lock
   wait forever: while a Lock is blocked, calls of RLock block too, and a
   caller blocked in Lock takes the lock once it stays free.  A caller that
   holds a lock runs to its Unlock. *)

\* The aliases given here: one with a stored configuration, one without.
LiveNames == {"master", "Slave"}

\* RLock while no caller is blocked in Lock.
UsingRLockQueued(p) ==
    /\ \A q \in Callers : pc[q] # "u_lock"
    /\ pc[p] = "idle"
    /\ \E alias \in LiveNames : StartUsing(p, alias)
    /\ UNCHANGED <<configurations, connections, last, rframe, ctorLog,
                   closeLog, closeCount, returned, retryVars, queryVars>>

LiveNext ==
    \E p \in Callers :
        \/ UsingRLockQueued(p)
        \/ UsingRead(p)
        \/ UsingLock(p)
        \/ UsingLocked(p)
        \/ CloseLock(p)
        \/ CloseLocked(p)

LiveInit ==
    /\ SelectorFresh
    /\ NewSelector({"Master"})
    /\ RetryIdle
    /\ PreloadIdle
    /\ QueryIdle

Fairness ==
    \A p \in Callers :
        /\ WF_vars(UsingRead(p))
        /\ WF_vars(UsingLock(p))
        /\ WF_vars(UsingLocked(p))
        /\ WF_vars(CloseLocked(p))

LiveSpec == LiveInit /\ [][LiveNext]_vars /\ Fairness

----------------------------------------------------------------------------
(* RetryAliases and RetryMaster on a selector whose callers also close it *)

\* The first caller runs RetryAliases and RetryMaster, the others Close.
AliasNext ==
    \/ \E p \in {1} :
          \/ RetryAliasesCall(p)
          \/ RetryMaster(p)
          \/ RetryAliasesUsing(p)
          \/ UsingRead(p)
          \/ UsingLock(p)
          \/ UsingLocked(p)
          \/ RetryAliasesRetry(p)
    \/ \E p \in Callers \ {1} :
          \/ CloseLock(p)
          \/ CloseLocked(p)

AliasSpec == Init /\ [][AliasNext]_vars

----------------------------------------------------------------------------
(* Retry applied to every list of at most MaxDrivers drivers and every
   behaviour of the handler *)

RetryDrivers == {1, 2}

SeqsUpTo(S, n) == UNION {[1..k -> S] : k \in 0..n}

RetryInit ==
    /\ SelectorFresh
    /\ NewSelector({})
    /\ RetryIdle
    /\ PreloadIdle
    /\ QueryIdle

RetryCall ==
    \E drivers \in SeqsUpTo(RetryDrivers, MaxDrivers) :
        \E handler \in Handlers(Len(drivers)) :
            /\ rDrivers' = drivers
            /\ rHandler' = handler
            /\ rResult' = [err |-> Retry(handler, drivers).err,
                           calls |-> Retry(handler, drivers).calls,
                           done |-> TRUE]
            /\ UNCHANGED <<selVars, queryVars>>

RetryNext == RetryCall

RetrySpec == RetryInit /\ [][RetryNext]_vars

----------------------------------------------------------------------------
(* Save, Delete and SoftDelete (src/queries.go:13-163).  A statement is the
   sequence of the pieces its text is formatted from: the text is their
   concatenation. *)

\* strings.Join
RECURSIVE Join(_, _)
Join(elems, sep) ==
    IF elems = <<>> THEN <<>>
    ELSE IF Len(elems) = 1 THEN Head(elems)
    ELSE Head(elems) \o <<sep>> \o Join(Tail(elems), sep)

\* The orders in which a range over the map schema.Fields can yield its keys.
Orders(S) ==
    { o \in [1..Cardinality(S) -> S] :
        \A i, j \in 1..Cardinality(S) : i # j => o[i] # o[j] }

\* A loop that returns the ignored fields only, not those with a default.
RECURSIVE SaveLoopIgnoredOnly(_, _, _)
SaveLoopIgnoredOnly(fields, order, acc) ==
    IF order = <<>> THEN acc
    ELSE LET column == fields[Head(order)]
             isIgnored == column.Tags.ignored # ""
             defaultValue == column.Tags.default
             hasDefault == defaultValue # ""
         IN  SaveLoopIgnoredOnly(fields, Tail(order),
               [ignoredColumns |->
                    IF isIgnored
                    THEN Append(acc.ignoredColumns, <<column.ColumnName>>)
                    ELSE acc.ignoredColumns,
                columns |->
                    IF ~isIgnored
                    THEN Append(acc.columns, <<column.ColumnName>>)
                    ELSE acc.columns,
                values |->
                    IF ~isIgnored
                    THEN Append(acc.values,
                                IF hasDefault THEN <<defaultValue>>
                                ELSE <<":", column.ColumnName>>)
                    ELSE acc.values])

\* The loop of Save over schema.Fields (lines 95-121), in the order given.
RECURSIVE SaveLoop(_, _, _)
SaveLoop(fields, order, acc) ==
    IF order = <<>> THEN acc
    ELSE LET column == fields[Head(order)]
             isIgnored == column.Tags.ignored # ""
             defaultValue == column.Tags.default
             hasDefault == defaultValue # ""
         IN  SaveLoop(fields, Tail(order),
               [ignoredColumns |->
                    IF isIgnored \/ hasDefault
                    THEN Append(acc.ignoredColumns, <<column.ColumnName>>)
                    ELSE acc.ignoredColumns,
                columns |->
                    IF ~isIgnored
                    THEN Append(acc.columns, <<column.ColumnName>>)
                    ELSE acc.columns,
                values |->
                    IF ~isIgnored
                    THEN Append(acc.values,
                                IF hasDefault THEN <<defaultValue>>
                                ELSE <<":", column.ColumnName>>)
                    ELSE acc.values])

NoColumns == [columns |-> <<>>, ignoredColumns |-> <<>>, values |-> <<>>]

\* fmt.Sprintf("%s = :%s", pkField.ColumnName, pkField.ColumnName)
NoWheres(pkField) == <<>>
Wheres(pkField) ==
    << <<pkField.ColumnName, " = ", ":", pkField.ColumnName>> >>

\* fmt.Sprintf("%s = %s", columns[i], values[i]) for each column
Updates(columns, values) ==
    [i \in 1..Len(columns) |-> columns[i] \o <<" = ">> \o values[i]]

\* The statement Save builds (lines 123-150).
SaveQuery(sch, order, pkValue) ==
    LET l == SaveLoop(sch.Fields, order, NoColumns)
        query ==
            IF isZeroValue(pkValue)
            THEN <<"INSERT INTO ", sch.TableName, " (">>
                 \o Join(l.columns, ", ") \o <<") VALUES (">>
                 \o Join(l.values, ", ") \o <<")">>
            ELSE <<"UPDATE ", sch.TableName, " SET ">>
                 \o Join(Updates(l.columns, l.values), ", ") \o <<" WHERE ">>
                 \o Join(Wheres(sch.PrimaryField), ", ")
    IN  IF Len(l.ignoredColumns) > 0
        THEN query \o <<" RETURNING ">> \o Join(l.ignoredColumns, ", ")
        ELSE query

\* The statement Delete builds (lines 68-72).
DeleteQuery(sch) ==
    <<"DELETE FROM ", sch.TableName, " WHERE ">>
    \o Join(Wheres(sch.PrimaryField), ", ")

\* The statement SoftDelete builds (lines 27-37).
SoftDeleteQuery(sch, fieldName) ==
    LET field == IF fieldName \in DOMAIN sch.Fields
                 THEN sch.Fields[fieldName] ELSE NoField
    IN  <<"UPDATE ", sch.TableName, " SET ", field.ColumnName, " = ", ":",
          field.ColumnName, " WHERE ">>
        \o Join(Wheres(sch.PrimaryField), ", ")

\* The position of the first piece p of the statement q, 0 when it has none.
IndexOf(q, p) ==
    IF \E i \in 1..Len(q) : q[i] = p
    THEN CHOOSE i \in 1..Len(q) : q[i] = p /\ \A j \in 1..(i - 1) : q[j] # p
    ELSE 0

Count(q, p) == Cardinality({i \in 1..Len(q) : q[i] = p})

\* The pieces of the statement q between the first piece from and the next
\* piece to after it, or the end of q when to is "".
Between(q, from, to) ==
    LET i == IndexOf(q, from)
        rest == SubSeq(q, i + 1, Len(q))
        j == IF to = "" THEN 0 ELSE IndexOf(rest, to)
    IN  IF i = 0 THEN <<>>
        ELSE IF j = 0 THEN rest ELSE SubSeq(rest, 1, j - 1)

\* The items of a list joined by the separator sep.
RECURSIVE Split(_, _)
Split(list, sep) ==
    IF list = <<>> THEN <<>>
    ELSE LET i == IndexOf(list, sep)
         IN  IF i = 0 THEN <<list>>
             ELSE <<SubSeq(list, 1, i - 1)>>
                  \o Split(SubSeq(list, i + 1, Len(list)), sep)

\* What the statement q writes: the sequence of its columns, each with the
\* value it is given: the columns and VALUES lists of an INSERT taken in
\* pairs, the SET list of an UPDATE.
Written(q) ==
    IF Head(q) = "INSERT INTO "
    THEN LET cols == Split(Between(q, " (", ") VALUES ("), ", ")
             vals == Split(Between(q, ") VALUES (", ")"), ", ")
         IN  IF Len(cols) # Len(vals) THEN <<>>
             ELSE [i \in 1..Len(cols) |-> [col |-> cols[i], val |-> vals[i]]]
    ELSE LET sets == Split(Between(q, " SET ", " WHERE "), ", ")
         IN  [i \in 1..Len(sets) |->
                [col |-> SubSeq(sets[i], 1, 1),
                 val |-> SubSeq(sets[i], 3, Len(sets[i]))]]

\* The columns of the RETURNING list of the statement q, in order.
Returning(q) == Split(Between(q, " RETURNING ", ""), ", ")

\* The columns of a RETURNING list.
Returned(l) == {l.ignoredColumns[i][1] : i \in 1..Len(l.ignoredColumns)}

\* The primary keys the row the statement returns can hold: the key the
\* statement wrote when the primary key is among its columns (the value bound
\* to its placeholder, or any key its default expression makes), the key of
\* the row for an UPDATE that does not write it, and a key of the table's
\* sequence for an INSERT that does not (id serial primary key).
RowKeys(sch, pkValue) ==
    LET tags == sch.PrimaryField.Tags
    IN  IF tags.ignored = ""
        THEN IF tags.default = "" THEN {pkValue} ELSE PkValues \ {0}
        ELSE IF isZeroValue(pkValue) THEN PkValues \ {0} ELSE {pkValue}

\* A return that wraps the error it is given.
ErrWrapped == "wrapped error"
SaveRetWrapped(op, err, scanned, keep) ==
    [op |-> op, pk |-> instance.pk,
     err |-> IF err = Nil THEN Nil ELSE ErrWrapped, scanned |-> scanned,
     afterInsert |-> sret.op = "Save" /\ sret.err = Nil /\ isZeroValue(sret.pk),
     prior |-> IF keep THEN [op |-> sret.op, pk |-> sret.pk]
               ELSE NoSaveRet.prior]

SaveRet(op, err, scanned, keep) ==
    [op |-> op, pk |-> instance.pk, err |-> err, scanned |-> scanned,
     afterInsert |-> sret.op = "Save" /\ sret.err = Nil /\ isZeroValue(sret.pk),
     prior |-> IF keep THEN [op |-> sret.op, pk |-> sret.pk]
               ELSE NoSaveRet.prior]

\* One call of Save on the instance; keep says whether the history of the
\* call before it is kept.  stmt.Get scans one row into the instance, and
\* fails with sql.ErrNoRows on a statement that returns none, as a statement
\* without RETURNING does.
SaveCall(keep) ==
    IF schema.err # Nil
    THEN /\ issued' = <<>> /\ sent' = (IF keep THEN issued ELSE <<>>)
         /\ sret' = SaveRet("Save", schema.err, {}, keep)
         /\ UNCHANGED <<schema, instance, selVars, retryVars, preVars>>
    ELSE \E order \in Orders(DOMAIN schema.Fields) :
           LET l == SaveLoop(schema.Fields, order, NoColumns)
               query == SaveQuery(schema, order, instance.pk)
               pk == schema.PrimaryField.ColumnName
           IN  \/ /\ issued' = <<[via |-> "PrepareNamed", query |-> query,
                                  executed |-> FALSE,
                                  err |-> ErrPrepareNamed]>>
                  /\ sent' = (IF keep THEN issued ELSE <<>>)
                  /\ sret' = SaveRet("Save", ErrPrepareNamed, {}, keep)
                  /\ UNCHANGED <<schema, instance, selVars, retryVars, preVars>>
               \/ /\ sent' = (IF keep THEN issued ELSE <<>>)
                  /\ \/ /\ issued' = <<[via |-> "PrepareNamed",
                                        query |-> query, executed |-> TRUE,
                                        err |-> ErrGet]>>
                        /\ sret' = SaveRet("Save", ErrGet, {}, keep)
                        /\ UNCHANGED <<schema, instance, selVars, retryVars, preVars>>
                     \/ /\ Len(l.ignoredColumns) > 0
                        /\ issued' = <<[via |-> "PrepareNamed",
                                        query |-> query, executed |-> TRUE,
                                        err |-> Nil]>>
                        /\ sret' = SaveRet("Save", Nil, Returned(l), keep)
                        /\ IF pk \in Returned(l)
                           THEN \E key \in RowKeys(schema, instance.pk) :
                                   instance' = [instance EXCEPT !.pk = key]
                           ELSE UNCHANGED instance
                        /\ UNCHANGED <<schema, selVars, retryVars, preVars>>

Save == SaveCall(FALSE) /\ UNCHANGED dbVars

\* One call of Delete on the instance.
Delete ==
    IF schema.err # Nil
    THEN /\ issued' = <<>> /\ sent' = <<>>
         /\ sret' = SaveRet("Delete", schema.err, {}, FALSE)
         /\ UNCHANGED <<schema, instance, dbVars, selVars, retryVars, preVars>>
    ELSE IF isZeroValue(instance.pk)
    THEN /\ issued' = <<>> /\ sent' = <<>>
         /\ sret' = SaveRet("Delete", ErrNoPrimaryKey, {}, FALSE)
         /\ UNCHANGED <<schema, instance, dbVars, selVars, retryVars, preVars>>
    ELSE /\ sent' = <<>>
         /\ \E err \in {Nil, ErrNamedExec} :
                /\ issued' = <<[via |-> "NamedExec",
                                query |-> DeleteQuery(schema),
                                executed |-> TRUE, err |-> err]>>
                /\ sret' = SaveRet("Delete", err, {}, FALSE)
         /\ UNCHANGED <<schema, instance, dbVars, selVars, retryVars, preVars>>

SoftDeleteFields == {"B", "Missing"}

\* One call of SoftDelete on the instance.
SoftDelete ==
    \E fieldName \in SoftDeleteFields :
        IF schema.err # Nil
        THEN /\ issued' = <<>> /\ sent' = <<>>
             /\ sret' = SaveRet("SoftDelete", schema.err, {}, FALSE)
             /\ UNCHANGED <<schema, instance, dbVars, selVars, retryVars, preVars>>
        ELSE IF isZeroValue(instance.pk)
        THEN /\ issued' = <<>> /\ sent' = <<>>
             /\ sret' = SaveRet("SoftDelete", ErrNoPrimaryKey, {}, FALSE)
             /\ UNCHANGED <<schema, instance, dbVars, selVars, retryVars, preVars>>
        ELSE /\ sent' = <<>>
             /\ \E err \in {Nil, ErrNamedExec} :
                    /\ issued' = <<[via |-> "NamedExec",
                                    query |-> SoftDeleteQuery(schema, fieldName),
                                    executed |-> TRUE, err |-> err]>>
                    /\ sret' = SaveRet("SoftDelete", err, {}, FALSE)
             /\ UNCHANGED <<schema, instance, dbVars, selVars, retryVars, preVars>>

\* An instance of any entity, new or holding a key, and of a value that has
\* no schema.
SaveInit ==
    /\ SelectorFresh
    /\ NewSelector({})
    /\ RetryIdle
    /\ PreloadIdle
    /\ schema \in Schemas \cup {NoSchema}
    /\ instance \in [pk : PkValues]
    /\ issued = <<>>
    /\ sent = <<>>
    /\ sret = NoSaveRet
    /\ NoDb

SaveNext == Save \/ Delete \/ SoftDelete

SaveSpec == SaveInit /\ [][SaveNext]_vars

\* Successive Saves of an instance of the example entity, each remembering
\* the statement of the Save before it.
SaveAgain == SaveCall(TRUE) /\ UNCHANGED dbVars

TextInit ==
    /\ SelectorFresh
    /\ NewSelector({})
    /\ RetryIdle
    /\ PreloadIdle
    /\ schema = ExampleSchema
    /\ instance \in [pk : PkValues]
    /\ issued = <<>>
    /\ sent = <<>>
    /\ sret = NoSaveRet
    /\ NoDb

TextNext == SaveAgain

TextSpec == TextInit /\ [][TextNext]_vars

----------------------------------------------------------------------------
(* Save and GetByParams over a database (src/queries.go:83-163, 176-215).
   The database holds the table t: it runs the statement it is sent with the
   values of the entity bound to the placeholders. *)

ErrNoRows == "sql: no rows in result set"

\* The columns the statement q binds to their own placeholders.
Bound(q) ==
    {Written(q)[i].col[1] : i \in {j \in 1..Len(Written(q)) :
        Written(q)[j].val = <<":">> \o Written(q)[j].col}}

\* The columns the statement q writes.
Set(q) == {Written(q)[i].col[1] : i \in 1..Len(Written(q))}

\* The table with the row under the key old, if any, replaced by row under key.
Put(t, old, key, row) ==
    [k \in (DOMAIN t \ {old}) \cup {key} |-> IF k = key THEN row ELSE t[k]]

\* The statement of a Save is run: an INSERT adds a row under a key the
\* table does not hold, an UPDATE changes the row the WHERE clause names. A
\* column bound to its placeholder gets the value of the entity, a column
\* written otherwise or left to its default a value of the database db, and
\* a column an UPDATE does not write keeps its value.
RunSave(q, old, key, db) ==
    /\ IF Head(q) = "INSERT INTO "
       THEN key \notin DOMAIN table
       ELSE old \in DOMAIN table /\ key \notin DOMAIN table \ {old}
    /\ table' = Put(table, IF Head(q) = "INSERT INTO " THEN key ELSE old, key,
                    [c \in Columns |->
                        IF c \in Bound(q) THEN entity[c]
                        ELSE IF Head(q) = "INSERT INTO " \/ c \in Set(q)
                             THEN db[c]
                             ELSE table[old][c]])

\* One call of Save on the instance over the database.  When stmt.Get
\* returns nil the statement has run and the columns of its RETURNING list
\* are scanned into the entity; when it returns an error the statement has
\* run or not (a statement without RETURNING runs and returns no row).
SaveStored ==
    /\ SaveCall(FALSE)
    /\ UNCHANGED fetched
    /\ IF Len(issued') = 1 /\ issued'[1].executed
       THEN \E db \in [Columns -> DbValues] :
              \/ /\ RunSave(issued'[1].query, instance.pk, instance'.pk, db)
                 /\ entity' = [c \in Columns |->
                                  IF c \in sret'.scanned THEN table'[instance'.pk][c]
                                  ELSE entity[c]]
              \/ /\ sret'.err # Nil
                 /\ UNCHANGED <<entity, table>>
       ELSE UNCHANGED <<entity, table>>

\* schema.ColumnPaths(): the columns of the entity, each prefixed with the
\* table name, in the order given.
ColumnPaths(sch, order) ==
    Join([i \in 1..Len(order) |->
            <<sch.TableName, ".", sch.Fields[order[i]].ColumnName>>], ", ")

\* schema.WhereColumnPaths(params): one equality per parameter.
WhereColumnPaths(sch, params) ==
    Join([i \in 1..Len(params) |->
            <<sch.TableName, ".", params[i], " = ", ":", params[i]>>], " AND ")

\* whereQuery (lines 186-199)
whereQuery(sch, order, params, fetchOne) ==
    LET q == <<"SELECT ">> \o ColumnPaths(sch, order) \o <<" FROM ",
              sch.TableName, " WHERE ">> \o WhereColumnPaths(sch, params)
    IN  IF fetchOne THEN q \o <<" LIMIT 1">> ELSE q

\* One call of GetByParams with the primary key of the instance as the only
\* parameter, into a new value (lines 176-178, 202-215).
GetByParams ==
    /\ sent' = <<>>
    /\ UNCHANGED <<schema, instance, entity, table, selVars, retryVars, preVars>>
    /\ IF schema.err # Nil
       THEN /\ issued' = <<>>
            /\ sret' = SaveRet("GetByParams", schema.err, {}, FALSE)
            /\ fetched' = [NoOut EXCEPT !.err = schema.err]
       ELSE \E order \in Orders(DOMAIN schema.Fields) :
              /\ \E err \in {ErrGet} \cup
                             (IF instance.pk \in DOMAIN table
                              THEN {Nil} ELSE {ErrNoRows}) :
                    /\ issued' = <<[via |-> "Get",
                                    query |-> whereQuery(schema, order,
                                        <<schema.PrimaryField.ColumnName>>,
                                        TRUE),
                                    executed |-> TRUE, err |-> err]>>
                    /\ sret' = SaveRet("GetByParams", err, {}, FALSE)
                    /\ fetched' = IF err = Nil
                              THEN [err |-> Nil, id |-> instance.pk,
                                    row |-> table[instance.pk]]
                              ELSE [NoOut EXCEPT !.err = err]

ErrSelect == "driver.Select error"

\* One call of FindByParams with the primary key of the instance as the only
\* parameter, into a new slice (lines 181-183, 202-215): driver.Select
\* returns the rows found, none included.
FindByParams ==
    /\ sent' = <<>>
    /\ UNCHANGED <<schema, instance, entity, table, selVars, retryVars, preVars>>
    /\ IF schema.err # Nil
       THEN /\ issued' = <<>>
            /\ sret' = SaveRet("FindByParams", schema.err, {}, FALSE)
            /\ fetched' = [NoOut EXCEPT !.err = schema.err]
       ELSE \E order \in Orders(DOMAIN schema.Fields) :
              \E err \in {Nil, ErrSelect} :
                    /\ issued' = <<[via |-> "Select",
                                    query |-> whereQuery(schema, order,
                                        <<schema.PrimaryField.ColumnName>>,
                                        FALSE),
                                    executed |-> TRUE, err |-> err]>>
                    /\ sret' = SaveRet("FindByParams", err, {}, FALSE)
                    /\ fetched' = IF err = Nil /\ instance.pk \in DOMAIN table
                              THEN [err |-> Nil, id |-> instance.pk,
                                    row |-> table[instance.pk]]
                              ELSE [NoOut EXCEPT !.err = err]

\* The tables the database starts with.
StoredTables == {NoTable, [k \in {1} |-> NoRow]}

\* The entities saved and read back: the primary key bound or ignored, the
\* field A bound or ignored, the field B bound or with a default.
StoredSchemas ==
    {sch \in Schemas :
        /\ sch.Fields["ID"].Tags.ignored # "false"
        /\ sch.Fields["ID"].Tags.default = ""
        /\ sch.Fields["A"].Tags.ignored # "false"
        /\ sch.Fields["A"].Tags.default = ""
        /\ sch.Fields["B"].Tags.ignored = ""}

\* A new instance, its primary key zero and its fields given, of any of these
\* entities, and a table that is empty or holds one row.
RoundTripInit ==
    /\ SelectorFresh
    /\ NewSelector({})
    /\ RetryIdle
    /\ PreloadIdle
    /\ schema \in StoredSchemas \cup {NoSchema}
    /\ instance = [pk |-> 0]
    /\ issued = <<>>
    /\ sent = <<>>
    /\ sret = NoSaveRet
    /\ entity = [c \in Columns |-> GivenValue]
    /\ table \in StoredTables
    /\ fetched = NoOut

RoundTripNext == SaveStored \/ GetByParams

RoundTripSpec == RoundTripInit /\ [][RoundTripNext]_vars

----------------------------------------------------------------------------
(* The five calls on a driver whose statements can fail *)

\* An instance, new or holding a key, of any of the stored entities or of a
\* value that has no schema, and a table that is empty or holds one row.
DriverInit ==
    /\ SelectorFresh
    /\ NewSelector({})
    /\ RetryIdle
    /\ PreloadIdle
    /\ schema \in StoredSchemas \cup {NoSchema}
    /\ instance \in [pk : PkValues]
    /\ issued = <<>>
    /\ sent = <<>>
    /\ sret = NoSaveRet
    /\ entity = [c \in Columns |-> GivenValue]
    /\ table \in StoredTables
    /\ fetched = NoOut

DriverNext == Save \/ Delete \/ SoftDelete \/ GetByParams \/ FindByParams

DriverSpec == DriverInit /\ [][DriverNext]_vars

----------------------------------------------------------------------------
(* GetSchema (src/schema.go:31-111) applied to an entity type.  A type is
   the sequence of its fields in declaration order; a field is its kind and
   whether its type satisfies Model (User and *Media do, time.Time and
   *time.Time do not). *)

MaxFields == 3

FieldTypes ==
    {[kind |-> "Int", isModel |-> FALSE]}
        \cup [kind : {"Struct", "Ptr"}, isModel : BOOLEAN]

Models == UNION {[1..n -> FieldTypes] : n \in 0..MaxFields}

\* newRelatedField (lines 80-111): related := relatedValue.(Model) is a type
\* assertion with one result (line 98), which panics when the value of the
\* field is not a Model; newColumn returns no error.
newRelatedField(model, field) ==
    [panic |-> ~ model[field].isModel, err |-> Nil]

\* The loop of GetSchema over the fields (lines 42-74), from field i on.
RECURSIVE GetSchemaFrom(_, _, _, _)
GetSchemaFrom(model, i, columns, associations) ==
    IF i > Len(model)
    THEN [returned |-> TRUE, panic |-> FALSE, err |-> Nil,
          Columns |-> columns, Associations |-> associations]
    ELSE IF model[i].kind \in {"Struct", "Ptr"}
    THEN LET relatedField == newRelatedField(model, i)
         IN  IF relatedField.panic
             THEN [returned |-> FALSE, panic |-> TRUE, err |-> Nil,
                   Columns |-> {}, Associations |-> {}]
             ELSE IF relatedField.err # Nil
             THEN [returned |-> TRUE, panic |-> FALSE,
                   err |-> relatedField.err,
                   Columns |-> {}, Associations |-> {}]
             ELSE GetSchemaFrom(model, i + 1, columns, associations \cup {i})
    ELSE GetSchemaFrom(model, i + 1, columns \cup {i}, associations)

\* One call of GetSchema.
GetSchema ==
    /\ \E model \in Models :
          introspected' = [state |-> "done", model |-> model]
                            @@ GetSchemaFrom(model, 1, {}, {})
    /\ UNCHANGED <<selVars, retryVars, schema, instance, issued, sent, sret,
                   dbVars, root, pre>>

SchemaInit ==
    /\ SelectorFresh
    /\ NewSelector({})
    /\ RetryIdle
    /\ QueryIdle
    /\ PreloadIdle

SchemaNext == GetSchema

SchemaSpec == SchemaInit /\ [][SchemaNext]_vars

----------------------------------------------------------------------------
(* The preloader (src/unnamed/part_004).  The root is an Article or a slice
   of Articles; a path is the sequence of its dot-separated segments.  The
   driver answers every query from the tables below, or fails every fetch on
   one of them. *)

ErrPanic == "reflect: call of reflect.Value.Elem on slice Value"

ErrNotAssociation == "%s is not a valid association"

\* The entities: an unset association holds the zero value of its type.
NoMedia == [id |-> 0]
User(id, avatar) ==
    [id |-> id, avatar_id |-> avatar, Avatar |-> NoMedia, Avatars |-> <<>>]
Article(id, author) ==
    [id |-> id, author_id |-> author, Author |-> User(0, 0), Comments |-> <<>>]

\* The rows the database holds.
Tables ==
    [users |-> <<User(1, 1)>>,
     media |-> <<[id |-> 1]>>,
     comments |-> <<[id |-> 1, article_id |-> 1], [id |-> 2, article_id |-> 1]>>,
     avatars |-> <<[id |-> 1, user_id |-> 1]>>]

\* The driver fails the fetches on this table.
ErrDriver == "driver error"
Down(name) == pre.down = name

\* The rows a query returns: those of the table whose column is one of keys.
Select(name, column, keys) ==
    SelectSeq(Tables[name], LAMBDA row : row[column] \in keys)

\* schema.Associations of Article: path -> field.  ForeignKey is the name of
\* the field holding the foreign key, in the source for an association to
\* one row, in the rows of the table for an association to many.
Associations ==
    [path \in {<<"Author">>, <<"Comments">>, <<"Author", "Avatar">>,
               <<"Author", "Avatars">>} |->
        [Path |-> path,
         AssociationFieldName |-> path[Len(path)],
         DestinationField |-> "",
         IsAssociationTypeOne |-> path[Len(path)] \in {"Author", "Avatar"},
         ForeignKey |-> CASE path = <<"Author">> -> "author_id"
                          [] path = <<"Comments">> -> "article_id"
                          [] path = <<"Author", "Avatar">> -> "avatar_id"
                          [] OTHER -> "user_id",
         Table |-> CASE path = <<"Author">> -> "users"
                     [] path = <<"Comments">> -> "comments"
                     [] path = <<"Author", "Avatar">> -> "media"
                     [] OTHER -> "avatars"]]

\* The paths a caller gives: those of the associations and two that name none.
Paths == DOMAIN Associations \cup {<<"Missing">>, <<"Author", "Missing">>}
PathLists ==
    {<<>>} \cup {<<p>> : p \in Paths}
           \cup {l \in Paths \X Paths : l[1] # l[2]}

\* The roots a caller gives: one Article or a slice of them.
ArticleKeys == {0, 1, 2}
UserKeys == {0, 1, 2}
Articles == {Article(id, author) : id \in ArticleKeys, author \in UserKeys}
Roots ==
    {[isSlice |-> FALSE, elems |-> <<a>>] : a \in Articles}
    \cup {[isSlice |-> TRUE, elems |-> l] :
            l \in UNION {[1..n -> Articles] : n \in 0..MaxElems}}

\* The i-th smallest element of a set of integers.
Nth(S, i) == CHOOSE x \in S : Cardinality({y \in S : y <= x}) = i

\* A list that holds every non-zero value, as often as it comes.
ForeignKeysRepeated(out, name) ==
    LET first == {i \in 1..Len(out) : out[i][name] # 0}
    IN  [k \in 1..Cardinality(first) |-> out[Nth(first, k)][name]]

\* The distinct non-zero values of the field name of the elements of out, in
\* the order they come in (lines 350-352 and 435-438).
ForeignKeys(out, name) ==
    LET first == {i \in 1..Len(out) :
                    /\ out[i][name] # 0
                    /\ \A j \in 1..(i - 1) : out[j][name] # out[i][name]}
    IN  [k \in 1..Cardinality(first) |-> out[Nth(first, k)][name]]

\* A preloadSingleOne that queries for a zero key too.
preloadSingleOneAnyKey(out, field) ==
    LET fk == out[field.ForeignKey]
        q == [Field |-> field.Path, Params |-> <<fk>>, FetchOne |-> TRUE]
        rows == Select(field.Table, "id", {fk})
    IN  IF Down(field.Table)
        THEN [out |-> out, queries |-> <<q>>, sent |-> <<q>>,
              err |-> ErrDriver]
        ELSE IF Len(rows) = 0
        THEN [out |-> out, queries |-> <<q>>, sent |-> <<q>>,
              err |-> ErrNoRows]
        ELSE [out |-> [out EXCEPT ![field.AssociationFieldName] = rows[1]],
              queries |-> <<q>>, sent |-> <<q>>, err |-> Nil]

\* A preloadSingleOne that returns no query when driver.Get fails.
preloadSingleOneDropsFailed(out, field) ==
    LET fk == out[field.ForeignKey]
        q == [Field |-> field.Path, Params |-> <<fk>>, FetchOne |-> TRUE]
        rows == Select(field.Table, "id", {fk})
    IN  IF fk = 0
        THEN [out |-> out, queries |-> <<>>, sent |-> <<>>, err |-> Nil]
        ELSE IF Down(field.Table)
        THEN [out |-> out, queries |-> <<>>, sent |-> <<q>>,
              err |-> ErrDriver]
        ELSE IF Len(rows) = 0
        THEN [out |-> out, queries |-> <<>>, sent |-> <<q>>,
              err |-> ErrNoRows]
        ELSE [out |-> [out EXCEPT ![field.AssociationFieldName] = rows[1]],
              queries |-> <<q>>, sent |-> <<q>>, err |-> Nil]

\* preloadSingleOne (lines 134-181): driver.Get returns sql.ErrNoRows when
\* no row has the key.
preloadSingleOne(out, field) ==
    LET fk == out[field.ForeignKey]
        q == [Field |-> field.Path, Params |-> <<fk>>, FetchOne |-> TRUE]
        rows == Select(field.Table, "id", {fk})
    IN  IF fk = 0
        THEN [out |-> out, queries |-> <<>>, sent |-> <<>>, err |-> Nil]
        ELSE IF Down(field.Table)
        THEN [out |-> out, queries |-> <<q>>, sent |-> <<q>>,
              err |-> ErrDriver]
        ELSE IF Len(rows) = 0
        THEN [out |-> out, queries |-> <<q>>, sent |-> <<q>>,
              err |-> ErrNoRows]
        ELSE [out |-> [out EXCEPT ![field.AssociationFieldName] = rows[1]],
              queries |-> <<q>>, sent |-> <<q>>, err |-> Nil]

\* preloadSingleMany (lines 183-211)
preloadSingleMany(out, field) ==
    LET fk == out.id
        q == [Field |-> field.Path, Params |-> <<fk>>, FetchOne |-> FALSE]
        relations == Select(field.Table, field.ForeignKey, {fk})
    IN  IF fk = 0
        THEN [out |-> out, queries |-> <<>>, sent |-> <<>>, err |-> Nil]
        ELSE IF Down(field.Table)
        THEN [out |-> out, queries |-> <<q>>, sent |-> <<q>>,
              err |-> ErrDriver]
        ELSE [out |-> [out EXCEPT ![field.AssociationFieldName] = relations],
              queries |-> <<q>>, sent |-> <<q>>, err |-> Nil]

\* preloadSingle (lines 90-132): the loop over the fields of one level, from
\* the queries issued so far; history: fetches, those sent so far.
RECURSIVE preloadSingle(_, _, _, _, _)
preloadSingle(out, level, fields, queries, fetches) ==
    IF fields = <<>>
    THEN [out |-> out, queries |-> queries, sent |-> fetches, err |-> Nil]
    ELSE LET field == Head(fields)
             relation == out[field.DestinationField]
             one == preloadSingleOne(relation, field)
             r == IF level > 1
                  THEN IF field.IsAssociationTypeOne
                       THEN [out |-> IF one.err = Nil
                                     THEN [out EXCEPT
                                             ![field.DestinationField] = one.out]
                                     ELSE out,
                             queries |-> one.queries, sent |-> one.sent,
                             err |-> one.err]
                       ELSE [out |-> [out EXCEPT
                                        ![field.DestinationField] = relation],
                             queries |-> <<>>, sent |-> <<>>, err |-> Nil]
                  ELSE IF field.IsAssociationTypeOne
                       THEN preloadSingleOne(out, field)
                       ELSE preloadSingleMany(out, field)
         IN  IF r.err # Nil
             THEN [out |-> r.out, queries |-> queries \o r.queries,
                   sent |-> fetches \o r.sent, err |-> r.err]
             ELSE preloadSingle(r.out, level, Tail(fields),
                                queries \o r.queries, fetches \o r.sent)

\* preloadSliceOne (lines 309-407): mapping[pk][fk] holds one element, the
\* last of those with this primary key and this foreign key.
preloadSliceOne(out, field) ==
    LET foreignKeys == ForeignKeys(out, field.ForeignKey)
        q == [Field |-> field.Path, Params |-> foreignKeys, FetchOne |-> FALSE]
        relations == Select(field.Table, "id", Range(foreignKeys))
        mapped(i) == \A j \in (i + 1)..Len(out) :
                        ~ (/\ out[j].id = out[i].id
                           /\ out[j][field.ForeignKey] = out[i][field.ForeignKey])
        found(i) == {k \in 1..Len(relations) :
                        relations[k].id = out[i][field.ForeignKey]}
    IN  IF Down(field.Table)
        THEN [out |-> out, queries |-> <<q>>, sent |-> <<q>>,
              err |-> ErrDriver]
        ELSE
        [out |-> [i \in 1..Len(out) |->
                    IF mapped(i) /\ found(i) # {}
                    THEN [out[i] EXCEPT ![field.AssociationFieldName] =
                            relations[Nth(found(i), Cardinality(found(i)))]]
                    ELSE out[i]],
         queries |-> <<q>>, sent |-> <<q>>, err |-> Nil]

\* preloadSliceMany (lines 409-499): mapping[fk] holds the first element
\* with this primary key; reflect.Append returns the longer slice and leaves
\* slc as it is (line 489), so the slice set at line 492 is the empty one.
preloadSliceMany(out, field) ==
    LET foreignKeys == ForeignKeys(out, "id")
        q == [Field |-> field.Path, Params |-> foreignKeys, FetchOne |-> FALSE]
        relations == Select(field.Table, field.ForeignKey, Range(foreignKeys))
        mapped(i) == out[i].id # 0 /\ \A j \in 1..(i - 1) : out[j].id # out[i].id
        instanceRelations(i) ==
            SelectSeq(relations, LAMBDA row : row[field.ForeignKey] = out[i].id)
        slc == <<>>
    IN  IF Down(field.Table)
        THEN [out |-> out, queries |-> <<q>>, sent |-> <<q>>,
              err |-> ErrDriver]
        ELSE
        [out |-> [i \in 1..Len(out) |->
                    IF mapped(i) /\ Len(instanceRelations(i)) > 0
                    THEN [out[i] EXCEPT ![field.AssociationFieldName] = slc]
                    ELSE out[i]],
         queries |-> <<q>>, sent |-> <<q>>, err |-> Nil]

\* preloadSlice (lines 217-307): the loop over the fields of one level.  At
\* a level above 1 the relations are a []interface{}, of which
\* preloadSliceMany takes the Elem (line 411): reflect panics.
RECURSIVE preloadSlice(_, _, _, _, _)
preloadSlice(out, level, fields, queries, fetches) ==
    IF fields = <<>>
    THEN [out |-> out, queries |-> queries, sent |-> fetches, err |-> Nil]
    ELSE LET field == Head(fields)
             relations == [i \in 1..Len(out) |-> out[i][field.DestinationField]]
             one == preloadSliceOne(relations, field)
             head(i) == Nth({j \in 1..Len(out) : out[j].id = out[i].id}, 1)
             r == IF level > 1
                  THEN IF field.IsAssociationTypeOne
                       THEN [out |-> IF one.err # Nil THEN out
                                     ELSE [i \in 1..Len(out) |->
                                        [out[i] EXCEPT ![field.DestinationField]
                                            = one.out[head(i)]]],
                             queries |-> one.queries, sent |-> one.sent,
                             err |-> one.err]
                       ELSE [out |-> out, queries |-> <<>>, sent |-> <<>>,
                             err |-> ErrPanic]
                  ELSE IF field.IsAssociationTypeOne
                       THEN preloadSliceOne(out, field)
                       ELSE preloadSliceMany(out, field)
         IN  IF r.err # Nil
             THEN [out |-> r.out, queries |-> queries \o r.queries,
                   sent |-> fetches \o r.sent, err |-> r.err]
             ELSE preloadSlice(r.out, level, Tail(fields),
                               queries \o r.queries, fetches \o r.sent)

\* A check that finds every path valid.
InvalidNever(paths) == {}

\* A validation that looks at the first path only.
InvalidFirstOnly(paths) ==
    {i \in 1..Len(paths) : i = 1 /\ paths[i] \notin DOMAIN Associations}

\* The paths of the list that name no association (lines 43-46).
Invalid(paths) == {i \in 1..Len(paths) : paths[i] \notin DOMAIN Associations}

\* A mapping that keeps the levels in the order of the paths.
MappingUnsorted(paths) ==
    LET levels == {Len(paths[i]) : i \in 1..Len(paths)}
        first == {i \in 1..Len(paths) :
                    \A j \in 1..(i - 1) : Len(paths[j]) # Len(paths[i])}
        fields == [i \in 1..Len(paths) |->
                     [Associations[paths[i]] EXCEPT
                        !.DestinationField = paths[i][1]]]
    IN  [k \in 1..Cardinality(levels) |->
            [level |-> Len(paths[Nth(first, k)]),
             fields |-> SelectSeq(fields,
                          LAMBDA f : Len(f.Path) = Len(paths[Nth(first, k)]))]]

\* mapping and levels (lines 42-65): the fields of each level in the order of
\* the paths, the levels ascending.
Mapping(paths) ==
    LET found == SelectSeq(paths, LAMBDA p : p \in DOMAIN Associations)
        levels == {Len(found[i]) : i \in 1..Len(found)}
        fields == [i \in 1..Len(found) |->
                     [Associations[found[i]] EXCEPT
                        !.DestinationField = found[i][1]]]
    IN  [k \in 1..Cardinality(levels) |->
            [level |-> Nth(levels, k),
             fields |-> SelectSeq(fields,
                          LAMBDA f : Len(f.Path) = Nth(levels, k))]]

\* preload, up to the loop over the levels (lines 26-65)
Preload ==
    /\ pre.state = "idle"
    /\ \E paths \in PathLists, down \in {""} \cup DOMAIN Tables :
         pre' = [down |-> down] @@
                IF Invalid(paths) # {}
                THEN [NoPreload EXCEPT !.state = "done", !.paths = paths,
                                       !.err = ErrNotAssociation]
                ELSE [NoPreload EXCEPT
                        !.state = IF paths = <<>> THEN "done" ELSE "running",
                        !.paths = paths,
                        !.pending = Mapping(paths)]
    /\ UNCHANGED <<root, selVars, retryVars, schema, instance, issued, sent,
                   sret, dbVars, introspected>>

\* A loop over the levels that goes on to the next level after a failure
\* and returns the first error.
PreloadLevelOn ==
    /\ pre.state = "running"
    /\ LET level == Head(pre.pending).level
           fields == Head(pre.pending).fields
           r == IF ~ root.isSlice
                THEN LET s == preloadSingle(root.elems[1], level, fields,
                                            <<>>, <<>>)
                     IN  [s EXCEPT !.out = <<s.out>>]
                ELSE preloadSlice(root.elems, level, fields, <<>>, <<>>)
       IN  /\ root' = [root EXCEPT !.elems = r.out]
           /\ pre' = [pre EXCEPT
                        !.queries = @ \o r.queries,
                        !.sent = @ \o r.sent,
                        !.err = IF @ # Nil THEN @ ELSE r.err,
                        !.pending = Tail(@),
                        !.state = IF Len(pre.pending) = 1
                                  THEN "done" ELSE "running"]
    /\ UNCHANGED <<selVars, retryVars, schema, instance, issued, sent, sret,
                   dbVars, introspected>>

\* preload, one turn of the loop over the levels (lines 67-81)
PreloadLevel ==
    /\ pre.state = "running"
    /\ LET level == Head(pre.pending).level
           fields == Head(pre.pending).fields
           r == IF ~ root.isSlice
                THEN LET s == preloadSingle(root.elems[1], level, fields,
                                            <<>>, <<>>)
                     IN  [s EXCEPT !.out = <<s.out>>]
                ELSE preloadSlice(root.elems, level, fields, <<>>, <<>>)
       IN  /\ root' = [root EXCEPT !.elems = r.out]
           /\ pre' = [pre EXCEPT
                        !.queries = @ \o r.queries,
                        !.sent = @ \o r.sent,
                        !.err = r.err,
                        !.pending = IF r.err # Nil THEN <<>> ELSE Tail(@),
                        !.state = IF r.err # Nil \/ Len(pre.pending) = 1
                                  THEN "done" ELSE "running"]
    /\ UNCHANGED <<selVars, retryVars, schema, instance, issued, sent, sret,
                   dbVars, introspected>>

PreloadInit ==
    /\ SelectorFresh
    /\ NewSelector({})
    /\ RetryIdle
    /\ QueryIdle
    /\ root \in Roots
    /\ pre = NoPreload
    /\ introspected = NoIntrospection

PreloadNext == Preload \/ PreloadLevel

PreloadSpec == PreloadInit /\ [][PreloadNext]_vars

----------------------------------------------------------------------------
(* Claims about the selector, checked under Spec *)

HasConfig(a) == \E n \in configurations : ToLower(n) = a
CtorOf(a) == {i \in 1..Len(ctorLog) : ctorLog[i].alias = a}
CtorOkOf(a) == {i \in CtorOf(a) : ctorLog[i].conn # NoConn}
UsingReturned(a) == last.kind = "using" /\ last.alias = a

\* C1, as stated: while no Selector.Close has run, for an alias with a stored
\* configuration the constructor is invoked at most once, and a caller that
\* returns from Using returns after exactly one invocation, with the
\* connection.
C1_ExactlyOneInvocation ==
    closeCount = 0 =>
        \A a \in LowerNames : HasConfig(a) =>
            /\ Cardinality(CtorOf(a)) <= 1
            /\ UsingReturned(a) =>
                  /\ Cardinality(CtorOf(a)) = 1
                  /\ last.err = Nil
                  /\ last.conn = connections[a]

\* C1, amended: while no Selector.Close has run, for an alias with a stored
\* configuration at most one constructor invocation succeeds, an invocation
\* follows only failed ones, and a caller that returns from Using returns
\* either the one constructed connection (the pooled one) or the error of its
\* own failed invocation.
C1_AtMostOneConstructed ==
    closeCount = 0 =>
        \A a \in LowerNames : HasConfig(a) =>
            /\ Cardinality(CtorOkOf(a)) <= 1
            /\ \A i, j \in CtorOf(a) : i < j => ctorLog[i].conn = NoConn
            /\ UsingReturned(a) =>
                  \/ /\ last.err = Nil
                     /\ a \in DOMAIN connections
                     /\ last.conn = connections[a]
                     /\ \E i \in CtorOkOf(a) : ctorLog[i].conn = last.conn
                  \/ /\ last.err = ErrNewWithOptions
                     /\ last.built
                     /\ last.conn = NoConn

\* Two callers raced on one alias: q missed the shared-lock lookup and waits
\* for the exclusive lock, while p, after a failed invocation, has constructed
\* the connection and returned.
C1_Witness ==
    /\ closeCount = 0
    /\ last.kind = "using" /\ last.err = Nil /\ last.built
    /\ Cardinality(CtorOf(last.alias)) = 2
    /\ \E q \in Callers :
          /\ q # last.by
          /\ pc[q] = "u_lock"
          /\ call[q].alias = last.alias

\* C2: a successful Using that began after another successful Using of the
\* same lower-cased alias had returned, with no Selector.Close in between,
\* returns that same connection and invokes no constructor.
C2_SequentialSameInstance ==
    (last.kind = "using" /\ last.err = Nil /\ last.prior # NoReturned)
        => /\ last.conn = last.prior.conn
           /\ ~last.built

\* The later call was given the alias in another letter case.
C2_Witness ==
    /\ last.kind = "using" /\ last.err = Nil
    /\ last.prior # NoReturned
    /\ last.prior.arg # last.arg
    /\ last.conn = last.prior.conn

\* C5: when Selector.Close has returned, Close was called exactly once on
\* every connection it found in the pool and on no other (but by an earlier
\* Selector.Close), it returned one error per close that failed, and the
\* pool is empty until the next Using stores a connection.
C5_CloseAll ==
    last.kind = "close" =>
          /\ \A c \in Range(last.pool) : closeLog[c].calls = 1
          /\ \A c \in AllConns \ Range(last.pool) :
                closeLog[c].calls = 0 \/ closeCount > 1
          /\ Cardinality(last.errs)
                = Cardinality({c \in Range(last.pool) : closeLog[c].fails = 1})
          /\ \A a \in last.errs : a \in DOMAIN last.pool
          /\ connections = EmptyMap

\* A Close over two pooled connections, one of whose closes failed.
C5_Witness ==
    /\ closeCount = 1
    /\ DOMAIN connections = {}
    /\ last.kind = "close" /\ Cardinality(last.errs) = 1
    /\ Cardinality({c \in AllConns : closeLog[c].calls = 1}) = 2
    /\ Cardinality({c \in AllConns : closeLog[c].fails = 1}) = 1

\* C7: a Using that returns from under the exclusive lock returns
\* ErrSelectorNotFoundConnection exactly when the lower-cased alias was neither
\* pooled nor the lower-cased name of a stored configuration, and then it
\* returns no connection, has invoked no constructor and has left the pool as
\* it found it.
C7_NotFound ==
    (last.kind = "using" /\ last.alias \notin DOMAIN last.pool) =>
        LET unknown == ~HasConfig(last.alias)
        IN  /\ unknown <=> last.err = ErrSelectorNotFoundConnection
            /\ unknown => /\ last.conn = NoConn
                          /\ ~last.built
                          /\ connections = last.pool

\* Using("MASTER") returned the alias-not-found error while another alias was
\* pooled.
C7_Witness ==
    /\ last.kind = "using"
    /\ last.err = ErrSelectorNotFoundConnection
    /\ last.arg = "MASTER"
    /\ DOMAIN connections # {}

----------------------------------------------------------------------------
(* Claims about Retry, checked under RetrySpec *)

\* C3: Retry given no connection returns ErrSelectorMissingRetryConnection
\* and has not invoked the handler.
C3_RetryNoConnection ==
    (rResult.done /\ Len(rDrivers) = 0) =>
        /\ rResult.err = ErrSelectorMissingRetryConnection
        /\ rResult.calls = <<>>

C3_Witness == rResult.done /\ rDrivers = <<>>

FirstSuccess(handler) ==
    IF \E i \in DOMAIN handler : handler[i] = Nil
    THEN CHOOSE i \in DOMAIN handler :
            handler[i] = Nil /\ \A j \in 1..(i - 1) : handler[j] # Nil
    ELSE 0

\* C4: Retry given connections invokes the handler on them in the order
\* given, once each, up to and including the first invocation that succeeds
\* and on none after it, and then returns nil; if no invocation succeeds it
\* has invoked the handler once on every connection and returns the error of
\* the last invocation.
C4_RetryInOrder ==
    (rResult.done /\ Len(rDrivers) > 0) =>
        LET n == Len(rResult.calls)
            k == FirstSuccess(rHandler)
        IN  /\ n = (IF k # 0 THEN k ELSE Len(rDrivers))
            /\ \A i \in 1..n : rResult.calls[i] = rDrivers[i]
            /\ rResult.err = (IF k # 0 THEN Nil ELSE rHandler[Len(rDrivers)])

\* The handler fails on a and succeeds on b; a third connection is never tried.
C4_Witness ==
    /\ rResult.done
    /\ rDrivers = <<1, 2, 1>>
    /\ rHandler[1] # Nil /\ rHandler[2] = Nil
    /\ rResult.calls = <<1, 2>>
    /\ rResult.err = Nil

----------------------------------------------------------------------------
(* Claims about RetryAliases and RetryMaster, checked under AliasSpec *)

RECURSIVE Resolved(_)
Resolved(results) ==
    IF results = <<>>
    THEN <<>>
    ELSE IF Head(results).err = Nil
         THEN <<Head(results).conn>> \o Resolved(Tail(results))
         ELSE Resolved(Tail(results))

\* C6: when RetryAliases has returned it has called Using once per alias, in
\* the order given, and has given Retry the connections of the calls that
\* succeeded, in that order and no other, so that it returns
\* ErrSelectorMissingRetryConnection when none succeeded and the handler has
\* run on a prefix of them otherwise; RetryMaster does so for the aliases
\* "slave", "master", so that the handler runs on the connection of "slave"
\* before that of "master".
C6_RetryAliases ==
    last.kind = "retry" =>
        /\ Len(last.resolved) = Len(last.aliases)
        /\ \A i \in 1..Len(last.aliases) :
              /\ last.resolved[i].alias = last.aliases[i]
              /\ last.resolved[i].err = Nil <=> last.resolved[i].conn # NoConn
        /\ last.drivers = Resolved(last.resolved)
        /\ last.drivers = <<>> =>
              /\ last.err = ErrSelectorMissingRetryConnection
              /\ last.calls = <<>>
        /\ last.drivers # <<>> =>
              /\ Len(last.calls) \in 1..Len(last.drivers)
              /\ \A i \in 1..Len(last.calls) : last.calls[i] = last.drivers[i]
              /\ last.err # ErrSelectorMissingRetryConnection
        /\ last.via = "RetryMaster" =>
              /\ last.aliases = <<"slave", "master">>
              /\ (last.resolved[1].err = Nil /\ last.resolved[2].err = Nil) =>
                    /\ last.calls[1] = last.resolved[1].conn
                    /\ Len(last.calls) = 2 => last.calls[2] = last.resolved[2].conn

\* RetryMaster resolved both aliases; the handler failed on the connection of
\* "slave" and then ran on that of "master".
C6_Witness ==
    /\ last.kind = "retry" /\ last.via = "RetryMaster"
    /\ Len(last.drivers) = 2 /\ Len(last.calls) = 2
    /\ last.drivers[1] # last.drivers[2]

\* RetryAliases dropped an alias that did not resolve and retried on the rest.
C6_WitnessDropped ==
    /\ last.kind = "retry" /\ last.via = "RetryAliases"
    /\ Len(last.aliases) = 3 /\ Len(last.drivers) = 2
    /\ last.resolved[2].err # Nil
    /\ last.calls # <<>>

----------------------------------------------------------------------------
(* Claims about Save, Delete and SoftDelete, checked under SaveSpec *)

\* The WHERE clause of the statement q: what follows WHERE, up to RETURNING.
WhereClause(q) ==
    LET w == IndexOf(q, " WHERE ")
        r == IndexOf(q, " RETURNING ")
    IN  IF w = 0 THEN <<>>
        ELSE SubSeq(q, w + 1, IF r = 0 THEN Len(q) ELSE r - 1)

IsInsert(q) == Head(q) = "INSERT INTO " /\ Count(q, " WHERE ") = 0
IsUpdate(q) == Head(q) = "UPDATE " /\ Count(q, " WHERE ") = 1

\* C8: a call of Save on an entity has sent the driver exactly one
\* statement: an INSERT when the primary key was zero-valued, and an UPDATE
\* whose WHERE clause is pk = :pk when it was not.
C8_SaveOneStatement ==
    (sret.op = "Save" /\ schema.err = Nil) =>
        /\ Len(issued) = 1
        /\ LET q == issued[1].query
               pk == schema.PrimaryField.ColumnName
           IN  IF sret.pk = 0
               THEN IsInsert(q)
               ELSE IsUpdate(q) /\ WhereClause(q) = <<pk, " = ", ":", pk>>

\* A Save of an instance that holds a key sent an UPDATE with a RETURNING
\* list and succeeded.
C8_Witness ==
    /\ sret.op = "Save" /\ sret.err = Nil /\ sret.pk # 0
    /\ Len(issued) = 1
    /\ Head(issued[1].query) = "UPDATE "
    /\ IndexOf(issued[1].query, " RETURNING ") # 0

\* C9: a call of Delete or of SoftDelete on an entity whose primary key is
\* zero-valued has returned an error and has sent the driver nothing.
C9_ZeroKeyNoSQL ==
    (sret.op \in {"Delete", "SoftDelete"} /\ sret.pk = 0) =>
        /\ sret.err # Nil
        /\ schema.err = Nil => sret.err = ErrNoPrimaryKey
        /\ issued = <<>>

C9_Witness ==
    /\ sret.op = "SoftDelete" /\ sret.pk = 0
    /\ schema.err = Nil
    /\ sret.err = ErrNoPrimaryKey

C9_WitnessDelete ==
    /\ sret.op = "Delete" /\ sret.pk = 0
    /\ schema.err = Nil
    /\ sret.err = ErrNoPrimaryKey

\* The columns of the fields that declare a default.
Defaulted(sch) ==
    {sch.Fields[n].ColumnName : n \in {m \in DOMAIN sch.Fields :
                                          sch.Fields[m].Tags.default # ""}}

\* C10: after a Save of a new entity (zero primary key) that succeeded, the
\* primary key of the instance is not zero and its defaulted fields have
\* been written back; and the Save that follows such a Save has sent an
\* UPDATE, not an INSERT.
C10_InsertThenUpdate ==
    /\ (sret.op = "Save" /\ sret.err = Nil /\ sret.pk = 0) =>
          /\ instance.pk # 0
          /\ Defaulted(schema) \subseteq sret.scanned
    /\ (sret.op = "Save" /\ sret.afterInsert) =>
          /\ Len(issued) = 1
          /\ IsUpdate(issued[1].query)

\* The part of C10 the code keeps: the columns of the RETURNING list are
\* written back, so the defaulted fields are set, and the primary key is set
\* when it is one of them.
C10_ReturnedWrittenBack ==
    (sret.op = "Save" /\ sret.err = Nil /\ sret.pk = 0) =>
        /\ Defaulted(schema) \subseteq sret.scanned
        /\ schema.PrimaryField.ColumnName \in sret.scanned => instance.pk # 0

\* Two successive Saves of an entity whose primary key is ignored: an INSERT
\* and then an UPDATE.
C10_WitnessUpdate ==
    /\ sret.op = "Save" /\ sret.afterInsert
    /\ Len(issued) = 1 /\ IsUpdate(issued[1].query)

\* Two successive Saves that succeeded and both sent an INSERT.
C10_WitnessSecondInsert ==
    /\ sret.op = "Save" /\ sret.afterInsert /\ sret.err = Nil
    /\ Len(issued) = 1 /\ IsInsert(issued[1].query)

FieldsOf(sch) == {sch.Fields[n] : n \in DOMAIN sch.Fields}
HasDefaultField(f) == f.Tags.default # ""

\* A field is declared ignored by the key ignored with a value other than
\* false; it is tagged ignored when the key has any value at all.
DeclaredIgnored(f) == f.Tags.ignored \notin {"", "false"}
TaggedIgnored(f) == f.Tags.ignored # ""

\* The statement q writes no field of the set ignored, writes every other
\* field of the schema exactly once, with its default expression as the
\* value when it declares one and with its own named placeholder when it
\* does not, and has a RETURNING clause exactly when a field is in ignored or
\* declares a default, which lists exactly those fields, each once.
WritesAllBut(q, sch, ignored) ==
    LET w == Written(q)
        r == Returning(q)
        back == ignored \cup {f \in FieldsOf(sch) : HasDefaultField(f)}
    IN  /\ \A f \in FieldsOf(sch) :
            LET at == {i \in 1..Len(w) : w[i].col = <<f.ColumnName>>}
            IN  IF f \in ignored THEN at = {}
                ELSE /\ Cardinality(at) = 1
                     /\ \A i \in at :
                          w[i].val = IF HasDefaultField(f)
                                     THEN <<f.Tags.default>>
                                     ELSE <<":", f.ColumnName>>
        /\ Len(w) = Cardinality(FieldsOf(sch) \ ignored)
        /\ Count(q, " RETURNING ") = (IF back # {} THEN 1 ELSE 0)
        /\ Len(r) = Cardinality(back)
        /\ \A f \in back :
              Cardinality({i \in 1..Len(r) : r[i] = <<f.ColumnName>>}) = 1

\* C11: in the statement a Save has sent, no ignored field is written; every
\* field that is not ignored is written exactly once, with its default
\* expression as the value when it declares one and with its own named
\* placeholder when it does not; and the statement has a RETURNING clause
\* exactly when a field is ignored or declares a default, and the clause
\* lists exactly those fields, each once.
C11_SaveColumns ==
    (sret.op = "Save" /\ schema.err = Nil) =>
        WritesAllBut(issued[1].query, schema,
                     {f \in FieldsOf(schema) : DeclaredIgnored(f)})

\* What Save keeps of C11: the same with every field whose tag has the key
\* ignored, whatever its value, taken as ignored.
C11_SaveColumnsAsTagged ==
    (sret.op = "Save" /\ schema.err = Nil) =>
        WritesAllBut(issued[1].query, schema,
                     {f \in FieldsOf(schema) : TaggedIgnored(f)})

\* A Save of an entity with an ignored key, a plain field and a defaulted
\* field has sent an UPDATE that writes the two.
C11_Witness ==
    /\ sret.op = "Save" /\ schema.err = Nil /\ sret.pk # 0
    /\ schema.Fields["ID"].Tags = [ignored |-> "true", default |-> ""]
    /\ schema.Fields["A"].Tags = [ignored |-> "", default |-> ""]
    /\ schema.Fields["B"].Tags = [ignored |-> "", default |-> "now()"]
    /\ Len(issued) = 1 /\ IsUpdate(issued[1].query)
    /\ Len(Written(issued[1].query)) = 2

\* A Save of an entity with a field tagged ignored:false has sent an INSERT
\* that does not write the field.
C11_WitnessIgnoredFalse ==
    /\ sret.op = "Save" /\ schema.err = Nil /\ sret.pk = 0
    /\ schema.Fields["A"].Tags = [ignored |-> "false", default |-> ""]
    /\ Len(issued) = 1 /\ IsInsert(issued[1].query)
    /\ \A i \in 1..Len(Written(issued[1].query)) :
          Written(issued[1].query)[i].col # <<"a">>

\* The text INSERT INTO t (a, b) VALUES (:a, :b) RETURNING c
ExampleText ==
    <<"INSERT INTO ", "t", " (", "a", ", ", "b", ") VALUES (",
      ":", "a", ", ", ":", "b", ")", " RETURNING ", "c">>

\* C12: every Save of an instance with a zero id of the entity with the
\* columns a and b and the ignored column c has sent the statement whose
\* text is INSERT INTO t (a, b) VALUES (:a, :b) RETURNING c; and a Save
\* that follows a Save of an instance with an equal primary key has sent a
\* statement of the same text.
C12_SameTextEveryCall ==
    /\ (sret.op = "Save" /\ schema = ExampleSchema /\ sret.pk = 0) =>
          /\ Len(issued) = 1
          /\ issued[1].query = ExampleText
    /\ (sret.op = "Save" /\ schema = ExampleSchema
           /\ sret.prior.op = "Save" /\ sret.prior.pk = sret.pk) =>
          /\ Len(issued) = 1 /\ Len(sent) = 1
          /\ issued[1].query = sent[1].query

\* Two successive Saves of equal instances of the example entity have sent
\* statements that list the columns a and b in different orders.
C12_WitnessOrders ==
    /\ sret.op = "Save" /\ schema = ExampleSchema
    /\ sret.prior.op = "Save" /\ sret.prior.pk = 0 /\ sret.pk = 0
    /\ Len(issued) = 1 /\ Len(sent) = 1
    /\ Between(sent[1].query, " (", ") VALUES (") = <<"a", ", ", "b">>
    /\ Between(issued[1].query, " (", ") VALUES (") = <<"b", ", ", "a">>

\* What Save keeps of C12: two successive Saves of instances with equal
\* primary keys write the same columns with the same values and return the
\* same columns, in whatever order.
C12_SameColumnsEveryCall ==
    (sret.op = "Save" /\ schema.err = Nil
        /\ sret.prior.op = "Save" /\ sret.prior.pk = sret.pk) =>
        /\ Len(issued) = 1 /\ Len(sent) = 1
        /\ Range(Written(issued[1].query)) = Range(Written(sent[1].query))
        /\ Range(Returning(issued[1].query)) = Range(Returning(sent[1].query))
        /\ Head(issued[1].query) = Head(sent[1].query)

----------------------------------------------------------------------------
(* Claims about Save followed by GetByParams, checked under RoundTripSpec *)

\* C13: a GetByParams on the primary key of an instance, called after the
\* Save that inserted the instance and succeeded, finds a row, and the value
\* it returns is equal to the instance on the primary key and on every
\* column, the defaulted and the returned ones included.
C13_RoundTrip ==
    (sret.op = "GetByParams" /\ sret.afterInsert) =>
        /\ fetched.err # ErrNoRows
        /\ fetched.err = Nil =>
              /\ fetched.id = instance.pk
              /\ \A c \in Columns : fetched.row[c] = entity[c]

\* The entity has a bound column and a defaulted one, the table held a row
\* before, and GetByParams returned the row the Save inserted.
C13_Witness ==
    /\ sret.op = "GetByParams" /\ sret.afterInsert /\ fetched.err = Nil
    /\ schema.Fields["ID"].Tags = [ignored |-> "true", default |-> ""]
    /\ schema.Fields["A"].Tags = [ignored |-> "", default |-> ""]
    /\ schema.Fields["B"].Tags = [ignored |-> "", default |-> "now()"]
    /\ Cardinality(DOMAIN table) = 2
    /\ fetched.id = 2 /\ fetched.row = [a |-> GivenValue, b |-> 2]

----------------------------------------------------------------------------
(* Claims about the preloader, checked under PreloadSpec *)

\* The path p was given to the call.
Given(p) == \E i \in 1..Len(pre.paths) : pre.paths[i] = p

\* A path given to the call names no association.
GivenInvalid ==
    \E i \in 1..Len(pre.paths) : pre.paths[i] \notin DOMAIN Associations

\* The call has run the level of the path p, given to it, without error.
Ran(p) ==
    /\ Given(p) /\ ~ GivenInvalid
    /\ pre.state # "idle" /\ pre.err = Nil
    /\ \A k \in 1..Len(pre.pending) : pre.pending[k].level > Len(p)

\* The call has run no level deeper than 1.
Shallow ==
    \A i \in 1..Len(pre.paths) : Len(pre.paths[i]) = 1 \/ pre.pending # <<>>

\* The queries of the log issued for the path p.
Issued(p) == {i \in 1..Len(pre.queries) : pre.queries[i].Field = p}

\* C14: a preload given a path that names no declared association, whatever
\* the segment that names none, returns the configuration error, has issued
\* no query and has modified no entity.
C14_InvalidPath ==
    (pre.state # "idle" /\ GivenInvalid) =>
        /\ pre.state = "done"
        /\ pre.err = ErrNotAssociation
        /\ pre.queries = <<>>
        /\ root \in Roots

\* The invalid path comes after a valid one whose query would find a row.
C14_Witness ==
    /\ pre.state = "done" /\ pre.err = ErrNotAssociation
    /\ pre.paths = <<(<<"Author">>), (<<"Author", "Missing">>)>>
    /\ root.isSlice /\ Len(root.elems) = MaxElems
    /\ root.elems[1].author_id = 1

\* C15: within one preload call, whatever the order of the paths, the
\* queries are issued in ascending depth, and while a level is still to
\* run no query of its depth or deeper has been issued: every query of a
\* depth is issued, and its destination set, before any deeper query.
C15_DepthOrder ==
    /\ \A i, j \in 1..Len(pre.queries) :
          i < j => Len(pre.queries[i].Field) <= Len(pre.queries[j].Field)
    /\ \A k \in 1..Len(pre.pending), i \in 1..Len(pre.queries) :
          Len(pre.queries[i].Field) < pre.pending[k].level
    /\ \A i \in 1..Len(pre.queries) :
          (Len(pre.queries[i].Field) > 1 /\ Given(<<"Author">>)) =>
              /\ \E j \in 1..(i - 1) : pre.queries[j].Field = <<"Author">>
              /\ \A e \in 1..Len(root.elems) :
                    root.elems[e].author_id = 1 =>
                        pre.queries[i].Params = <<1>>

\* The deeper path is given first; the shallow query is issued first and
\* the deeper one reads the key of the row it set.
C15_Witness ==
    /\ pre.state = "done" /\ pre.err = Nil
    /\ pre.paths = <<(<<"Author", "Avatar">>), (<<"Author">>)>>
    /\ Len(pre.queries) = 2
    /\ pre.queries[1].Field = <<"Author">>
    /\ pre.queries[2].Field = <<"Author", "Avatar">>
    /\ pre.queries[2].Params = <<1>>
    /\ root.elems[Len(root.elems)].Author.Avatar.id = 1

\* C16: on a single root, an association to one row whose foreign key is
\* zero, and an association to many rows when the primary key of the root
\* is zero, issue no query, leave the destination zero or empty, and return
\* no error.
C16_ZeroKeySingle ==
    (~ root.isSlice /\ pre.state = "done" /\ ~ GivenInvalid) =>
        LET e == root.elems[1]
            skipped == {p \in {<<"Author">>, <<"Comments">>} :
                          /\ Given(p)
                          /\ e[IF p = <<"Author">> THEN "author_id" ELSE "id"] = 0}
        IN  /\ \A p \in skipped : Issued(p) = {}
            /\ (<<"Author">> \in skipped) => e.Author = User(0, 0)
            /\ (<<"Comments">> \in skipped) => e.Comments = <<>>
            /\ (skipped # {} /\ \A i \in 1..Len(pre.paths) : pre.paths[i] \in skipped)
                  => pre.err = Nil /\ pre.queries = <<>>

\* Both associations are preloaded on a root whose keys are zero.
C16_Witness ==
    /\ ~ root.isSlice /\ pre.state = "done" /\ pre.err = Nil
    /\ pre.paths = <<(<<"Author">>), (<<"Comments">>)>>
    /\ root.elems[1].id = 0 /\ root.elems[1].author_id = 0
    /\ pre.queries = <<>>

\* The other root: the association to one row is skipped, the one to many
\* rows is queried.
C16_WitnessOne ==
    /\ ~ root.isSlice /\ pre.state = "done" /\ pre.err = Nil
    /\ pre.paths = <<(<<"Author">>), (<<"Comments">>)>>
    /\ root.elems[1].id = 1 /\ root.elems[1].author_id = 0
    /\ Len(pre.queries) = 1 /\ Len(root.elems[1].Comments) = 2

\* C17: an association of depth 1, to one row or to many, preloaded over a
\* slice root issues exactly one query, and the key list of the query holds
\* every distinct non-zero key of the elements exactly once and never zero.
C17_OneQueryDistinctKeys ==
    \A p \in {<<"Author">>, <<"Comments">>} :
        (root.isSlice /\ Ran(p)) =>
            LET name == IF p = <<"Author">> THEN "author_id" ELSE "id"
            IN  /\ Cardinality(Issued(p)) = 1
                /\ \A i \in Issued(p) :
                      LET keys == pre.queries[i].Params
                      IN  /\ \A k \in 1..Len(keys) : keys[k] # 0
                          /\ \A k, l \in 1..Len(keys) :
                                keys[k] = keys[l] => k = l
                          /\ Range(keys) =
                                {root.elems[e][name] : e \in 1..Len(root.elems)}
                                    \ {0}

\* The elements repeat a key and hold a zero one.
C17_Witness ==
    /\ root.isSlice /\ Ran(<<"Author">>) /\ Ran(<<"Comments">>)
    /\ Len(root.elems) = MaxElems
    /\ root.elems[1].author_id = 1 /\ root.elems[MaxElems].author_id = 1
    /\ root.elems[1].id = 0 /\ root.elems[MaxElems].id = 2
    /\ \E i \in Issued(<<"Author">>) : pre.queries[i].Params = <<1>>
    /\ \E i \in Issued(<<"Comments">>) : pre.queries[i].Params = <<2>>

\* The elements hold two distinct keys.
C17_WitnessTwoKeys ==
    /\ root.isSlice /\ Ran(<<"Author">>)
    /\ \E i \in Issued(<<"Author">>) : Len(pre.queries[i].Params) = 2

\* C18: once an association to one row is preloaded over a slice (and no
\* deeper level has run), every
\* element whose foreign key is the primary key of a fetched row holds that
\* row, also when several elements share the row, and every other element
\* is left unset.
C18_FanIn ==
    (root.isSlice /\ Ran(<<"Author">>) /\ Shallow) =>
        \A e \in 1..Len(root.elems) :
            IF Len(Select("users", "id", {root.elems[e].author_id})) > 0
            THEN root.elems[e].Author.id = root.elems[e].author_id
            ELSE root.elems[e].Author = User(0, 0)

\* What holds: the row is held by the last of the elements that have the
\* same primary key and the same foreign key, and not by the others.
C18_FanInLastOnly ==
    (root.isSlice /\ Ran(<<"Author">>) /\ Shallow) =>
        \A e \in 1..Len(root.elems) :
            IF /\ Len(Select("users", "id", {root.elems[e].author_id})) > 0
               /\ \A f \in (e + 1)..Len(root.elems) :
                     \/ root.elems[f].id # root.elems[e].id
                     \/ root.elems[f].author_id # root.elems[e].author_id
            THEN root.elems[e].Author.id = root.elems[e].author_id
            ELSE root.elems[e].Author.id = 0

\* Two elements with distinct primary keys share one fetched row.
C18_WitnessFanIn ==
    /\ root.isSlice /\ Ran(<<"Author">>) /\ Shallow
    /\ Len(root.elems) = MaxElems
    /\ root.elems[1].id # root.elems[MaxElems].id
    /\ root.elems[1].Author.id = 1 /\ root.elems[MaxElems].Author.id = 1

\* C19: after an association to many rows is preloaded over a slice, every
\* element with a non-zero primary key holds exactly the fetched rows whose
\* foreign key is its primary key, also when elements share a primary key.
C19_FanOut ==
    (root.isSlice /\ Ran(<<"Comments">>)) =>
        \A e \in 1..Len(root.elems) :
            root.elems[e].id # 0 =>
                root.elems[e].Comments =
                    Select("comments", "article_id", {root.elems[e].id})

\* What holds: no element holds a row.
C19_NoRows ==
    (root.isSlice /\ Ran(<<"Comments">>)) =>
        \A e \in 1..Len(root.elems) : root.elems[e].Comments = <<>>

\* An element whose primary key is the foreign key of two fetched rows.
C19_WitnessRows ==
    /\ root.isSlice /\ Ran(<<"Comments">>) /\ Len(root.elems) > 0
    /\ root.elems[1].id = 1
    /\ Len(Select("comments", "article_id", {root.elems[1].id})) = 2

\* C20: a preload of depth 2 returns no error of its own, and afterwards
\* the parent field of every element holds the parent value with the nested
\* association populated, for an association to one row and for one to
\* many rows, on a single root and on a slice.
C20_NestedPopulated ==
    /\ pre.err # ErrPanic
    /\ Ran(<<"Author", "Avatar">>) =>
          \A e \in 1..Len(root.elems) :
              Len(Select("media", "id", {root.elems[e].Author.avatar_id})) > 0
                  => root.elems[e].Author.Avatar.id
                        = root.elems[e].Author.avatar_id
    /\ Ran(<<"Author", "Avatars">>) =>
          \A e \in 1..Len(root.elems) :
              root.elems[e].Author.Avatars =
                  Select("avatars", "user_id", {root.elems[e].Author.id} \ {0})

\* What holds: on a single root the nested association to one row is
\* populated in the parent field.
C20_NestedSingleOne ==
    (~ root.isSlice /\ Ran(<<"Author", "Avatar">>)) =>
        (Len(Select("media", "id", {root.elems[1].Author.avatar_id})) > 0
            => root.elems[1].Author.Avatar.id = root.elems[1].Author.avatar_id)

\* The parent and the nested association to one row are set on a single
\* root.
C20_WitnessSingleOne ==
    /\ ~ root.isSlice /\ Ran(<<"Author", "Avatar">>)
    /\ root.elems[1].Author.id = 1 /\ root.elems[1].Author.Avatar.id = 1

\* The table a fetch of the log reads.
TableOf(q) == Associations[q.Field].Table

\* C21: in every state of a preload call, and so when it returns with or
\* without an error, the query list holds exactly the fetches sent to the
\* driver so far, one record each, in the order they were sent.
C21_QueriesAreFetches == pre.queries = pre.sent

\* The call returned the driver's error after two fetches, the failing one
\* the second, and the list holds both.
C21_Witness ==
    /\ pre.state = "done" /\ pre.err = ErrDriver
    /\ Len(pre.sent) = 2 /\ Len(pre.queries) = 2
    /\ ~ Down(TableOf(pre.sent[1])) /\ Down(TableOf(pre.sent[2]))

\* The destinations populated by the fetches of level 1 before the last one
\* hold what these fetches found.
Kept ==
    \A i \in 1..(Len(pre.sent) - 1) :
        /\ (pre.sent[i].Field = <<"Author">> /\ ~ root.isSlice) =>
              root.elems[1].Author.id = root.elems[1].author_id
        /\ (pre.sent[i].Field = <<"Author">> /\ root.isSlice) =>
              \A e \in 1..Len(root.elems) :
                 (/\ Len(Select("users", "id", {root.elems[e].author_id})) > 0
                  /\ \A f \in (e + 1)..Len(root.elems) :
                        \/ root.elems[f].id # root.elems[e].id
                        \/ root.elems[f].author_id # root.elems[e].author_id)
                     => root.elems[e].Author.id = root.elems[e].author_id
        /\ (pre.sent[i].Field = <<"Comments">> /\ ~ root.isSlice) =>
              root.elems[1].Comments =
                  Select("comments", "article_id", {root.elems[1].id})

\* C22: when a fetch has failed, the call has returned that error, the
\* failing fetch is the last one sent (no fetch for a later association or
\* a deeper level), no level is left to run, and the destinations
\* populated before the failure still hold their rows.
C22_FailureStops ==
    pre.err \in {ErrDriver, ErrNoRows} =>
        /\ pre.state = "done" /\ pre.pending = <<>>
        /\ pre.sent # <<>>
        /\ pre.err = ErrDriver =>
              /\ Down(TableOf(pre.sent[Len(pre.sent)]))
              /\ \A i \in 1..(Len(pre.sent) - 1) : ~ Down(TableOf(pre.sent[i]))
        /\ pre.err = ErrNoRows =>
              /\ pre.sent[Len(pre.sent)].FetchOne
              /\ Select(TableOf(pre.sent[Len(pre.sent)]), "id",
                        Range(pre.sent[Len(pre.sent)].Params)) = <<>>
        /\ Kept

\* The fetch of the second level failed after the first level had set the
\* author, and the author is still set.
C22_Witness ==
    /\ pre.err = ErrDriver /\ pre.state = "done"
    /\ pre.paths = <<<<"Author">>, <<"Author", "Avatar">>>>
    /\ Len(pre.sent) = 2
    /\ root.elems[1].Author.id = 1

\* The fetch of the first of two associations failed and the second was
\* never fetched.
C22_WitnessSkipped ==
    /\ pre.err = ErrDriver /\ pre.state = "done"
    /\ pre.paths = <<<<"Comments">>, <<"Author">>>>
    /\ Len(pre.sent) = 1 /\ pre.sent[1].Field = <<"Comments">>
    /\ root.elems[1].author_id = 1 /\ root.elems[1].Author.id = 0

\* C23: after a preload of a slice given two paths of which one names no
\* declared association, no query was issued for that path and a query was
\* issued for the other, valid, path of depth 1.
C23_OthersPreloaded ==
    (pre.state = "done" /\ GivenInvalid /\ root.isSlice
        /\ Len(pre.paths) = 2) =>
        \A i \in 1..Len(pre.paths) :
            IF pre.paths[i] \in DOMAIN Associations
            THEN Len(pre.paths[i]) = 1 => Issued(pre.paths[i]) # {}
            ELSE Issued(pre.paths[i]) = {}

\* What holds: given two paths of which one names no declared association,
\* whatever its place, the call returns the configuration error, no fetch
\* was sent for either path, and no destination of the valid path is set.
C23_NoPathPreloaded ==
    (pre.state = "done" /\ GivenInvalid /\ Len(pre.paths) = 2) =>
        /\ pre.err = ErrNotAssociation
        /\ \A i \in 1..Len(pre.paths) : Issued(pre.paths[i]) = {}
        /\ pre.sent = <<>>
        /\ \A e \in 1..Len(root.elems) :
              root.elems[e].Author = User(0, 0) /\ root.elems[e].Comments = <<>>

\* A valid path of depth 1 was given first and a path that names no
\* association second, on a slice whose first element has an author row.
C23_Witness ==
    /\ pre.state = "done" /\ root.isSlice /\ Len(root.elems) > 0
    /\ pre.paths = <<<<"Author">>, <<"Missing">>>>
    /\ root.elems[1].author_id = 1
    /\ pre.err = ErrNotAssociation

\* C24: a preload of the one nested path on a slice of articles that have
\* an author issues exactly 2 queries: the batched fetch of the authors,
\* then the batched fetch of what the authors refer to.
C24_TwoQueries ==
    (/\ pre.state = "done" /\ pre.down = "" /\ root.isSlice
     /\ pre.paths = <<<<"Author", "Avatar">>>>
     /\ \E e \in 1..Len(root.elems) : root.elems[e].author_id = 1) =>
        /\ Len(pre.queries) = 2
        /\ pre.queries[1].Field = <<"Author">>
        /\ pre.queries[2].Field = <<"Author", "Avatar">>

----------------------------------------------------------------------------
(* Claims about the pool across Selector.Close *)

\* The selector was built by NewSelectorWithDriver: the given driver is in
\* the pool or a Selector.Close has closed it.
WithDriver ==
    GivenDriver \in Range(connections) \/ closeLog[GivenDriver].calls > 0

\* The connections NewWithOptions has returned to Using.
Constructed == {ctorLog[i].conn : i \in 1..Len(ctorLog)} \ {NoConn}

C27_WitnessWithDriver ==
    /\ WithDriver /\ closeCount > 0
    /\ last.kind = "using" /\ last.alias = "master"
    /\ last.err = ErrSelectorNotFoundConnection

\* A caller returns from Using with the constructor's error.
ConstructionFails ==
    \E p \in Callers :
        /\ pc[p] = "u_locked" /\ pc'[p] # "u_locked"
        /\ last'.by = p /\ last'.err = ErrNewWithOptions

\* A caller holds the exclusive lock in Using, its alias is not in the pool
\* and a configuration is stored for it.
MustConstruct(p) ==
    /\ pc[p] = "u_locked"
    /\ call[p].alias \notin DOMAIN connections
    /\ \E n \in configurations : ConfigMatches(call[p].alias, n)

\* C28: the step of Using in which construction fails returns that error
\* and no connection, leaves the pool as it was, without the alias, and
\* leaves the lock free; a Using that holds the lock for an alias that is
\* not pooled invokes the constructor, also after a failure; and no caller
\* waits for the lock forever or holds it forever.
C28_FailureReleases ==
    /\ [][ConstructionFails =>
            /\ last'.conn = NoConn
            /\ connections' = connections
            /\ last'.alias \notin DOMAIN connections'
            /\ mutex'.writer = 0]_vars
    /\ [][\A p \in Callers :
            (MustConstruct(p) /\ pc'[p] # "u_locked") =>
                /\ Len(ctorLog') = Len(ctorLog) + 1
                /\ ctorLog'[Len(ctorLog')].alias = call[p].alias]_vars
    /\ \A p \in Callers : (pc[p] = "u_lock") ~> (pc[p] = "u_locked")
    /\ \A p \in Callers : (pc[p] = "u_locked") ~> (pc[p] = "idle")

\* Construction failed for an alias, the constructor was invoked again for
\* the same alias, and a caller waits for the lock.
C28_Witness ==
    /\ Len(ctorLog) >= 2
    /\ ctorLog[1].conn = NoConn
    /\ ctorLog[2].alias = ctorLog[1].alias
    /\ last.kind = "using" /\ last.built
    /\ \E p \in Callers : pc[p] = "u_lock"

\* C29: in every state of every interleaving of Using and Close, each
\* connection Using has constructed is in the pool or a Selector.Close has
\* called its Close.
C29_PooledOrClosed ==
    \A c \in Constructed : c \in Range(connections) \/ closeLog[c].calls > 0

\* One constructed connection is closed and another one is in the pool,
\* while a caller is inside Using.
C29_Witness ==
    /\ \E c, d \in Constructed :
          /\ c \in Range(connections) /\ closeLog[c].calls = 0
          /\ d \notin Range(connections) /\ closeLog[d].calls > 0
    /\ \E p \in Callers : pc[p] \in UsingPcs

----------------------------------------------------------------------------
(* Claims about GetSchema *)

\* The fields of struct or pointer kind whose type does not satisfy Model.
NotModels(model) ==
    {i \in 1..Len(model) :
        model[i].kind \in {"Struct", "Ptr"} /\ ~ model[i].isModel}

\* C26: GetSchema of an entity type with a field of struct or pointer kind
\* whose type does not satisfy Model returns an error and no schema, and
\* does not panic.
C26_ConfigurationError ==
    (introspected.state = "done" /\ NotModels(introspected.model) # {}) =>
        /\ ~ introspected.panic
        /\ introspected.returned /\ introspected.err # Nil
        /\ introspected.Columns = {} /\ introspected.Associations = {}

\* What holds: the call panics on such a type and returns a schema and no
\* error on every other.
C26_Panics ==
    introspected.state = "done" =>
        IF NotModels(introspected.model) # {}
        THEN introspected.panic /\ ~ introspected.returned
        ELSE /\ introspected.returned /\ introspected.err = Nil
             /\ introspected.Columns \cup introspected.Associations
                    = 1..Len(introspected.model)

\* The call panicked at a pointer field after a column and an association.
C26_WitnessPanic ==
    /\ introspected.panic
    /\ Len(introspected.model) = 3
    /\ introspected.model[1].kind = "Int"
    /\ introspected.model[2] = [kind |-> "Struct", isModel |-> TRUE]
    /\ introspected.model[3] = [kind |-> "Ptr", isModel |-> FALSE]

----------------------------------------------------------------------------
(* Claims about a driver that fails *)

\* The errors of the driver.
DriverErrors == {ErrPrepareNamed, ErrGet, ErrNamedExec, ErrSelect, ErrNoRows}

\* C25: when the driver has failed during a Save, Delete, SoftDelete,
\* GetByParams or FindByParams, the call gave the driver one statement,
\* once, the failing one, the call returned the error the driver returned
\* for it, and a statement whose preparation failed was not executed; and a
\* call returns an error of the driver only when the driver failed.
C25_FailsOnce ==
    /\ (\E i \in 1..Len(issued) : issued[i].err # Nil) =>
          /\ Len(issued) = 1
          /\ sret.err = issued[1].err
          /\ issued[1].err = ErrPrepareNamed <=> ~ issued[1].executed
    /\ sret.err \in DriverErrors =>
          (Len(issued) = 1 /\ issued[1].err = sret.err)

\* A Save whose preparation failed: the statement was not executed.
C25_Witness ==
    /\ sret.op = "Save" /\ sret.err = ErrPrepareNamed
    /\ Len(issued) = 1 /\ ~ issued[1].executed

\* Each of the other failures has happened.
C25_WitnessGet == sret.op = "Save" /\ sret.err = ErrGet /\ issued[1].executed
C25_WitnessDelete == sret.op = "Delete" /\ sret.err = ErrNamedExec
C25_WitnessSoftDelete == sret.op = "SoftDelete" /\ sret.err = ErrNamedExec
C25_WitnessGetByParams == sret.op = "GetByParams" /\ sret.err = ErrGet
C25_WitnessFindByParams == sret.op = "FindByParams" /\ sret.err = ErrSelect

====
